---- MODULE Spec2Model ----
(***************************************************************************)
(* Sales-and-inventory engine of the POS application: the SQLite tables    *)
(* products, sales, sale_items and stock_movements, and the service        *)
(* operations that write them (SalesService.create / cancel,               *)
(* ProductService.create / update / delete / adjustStock).                 *)
(***************************************************************************)
EXTENDS Integers, Sequences, FiniteSets, TLC

(* ---- bounds of the model ---- *)
MaxProducts == 2
MaxSales == 2
MaxItems == 2
MaxQty == 1
MaxStock == 2
MaxMoves == 3
MaxLedger == 4
MaxCatalogMoves == 2
MaxDay == 1
MaxRequests == 3
MaxFailedStartups == 2
MaxUsers == 2

(* ---- an optional input field: Absent (undefined) or Some(v) ---- *)
Absent == <<>>
Some(v) == <<v>>
Val(x) == x[1]

(* ---- values standing for SQL NULL ---- *)
NoRef == 0
NoBarcode == "null"
NoErr == "ok"

(* ---- error messages thrown by the services ---- *)
ErrNoItems == "La venta debe tener al menos un producto"
ErrTotal == "El total debe ser mayor a cero"
ErrItemNotFound == "Producto <product_name> no encontrado"
ErrStock == "Stock insuficiente para <product_name>"
ErrSaleNotFound == "Venta no encontrada o ya cancelada"
ErrProductNotFound == "Producto no encontrado"
ErrNegativeStock == "El stock no puede ser negativo"
ErrPricePositive == "El precio debe ser un valor positivo"
ErrBarcodeExists == "Ya existe un producto con ese codigo de barras"
ErrBarcodeOther == "Ya existe otro producto con ese codigo de barras"
ErrUnique == "UNIQUE constraint failed: products.barcode"
ErrForeignKey == "FOREIGN KEY constraint failed"
ErrBinding == "Too few parameter values were provided"
ErrUserNotFound == "Usuario no encontrado"
ErrUserInactive == "Usuario inactivo"
ErrPassword == "Contrasena incorrecta"

(* rows of the users table: the seeded administrator *)
Users == {"admin-001"}

VARIABLES products, sales, sale_items, stock_movements, clock, last, prev,
          pending, answers,
          conn, schema_version, schema, migration, attempts, users

(* cancel requests the renderer has sent and not awaited: those still in
   flight and, in the order they were handled, the answers given *)
cancelVars == <<pending, answers>>

(* the database file and its opening: the module's connection, the rows of
   schema_version, the migrations whose schema changes the file holds, the
   position of runMigrations, the migration transactions run so far and the
   rows of the users table, which the first migration seeds *)
startupVars == <<conn, schema_version, schema, migration, attempts, users>>

vars == <<products, sales, sale_items, stock_movements, clock, last, prev,
          cancelVars, startupVars>>

(* ---- the users table ---- *)

(* INSERT OR IGNORE INTO users: the default administrator, is_active taking
   the column default 1 *)
seedAdmin(table) ==
  IF \E i \in DOMAIN table :
       table[i].id = "admin-001" \/ table[i].username = "admin"
  THEN table
  ELSE Append(table, [id |-> "admin-001", username |-> "admin",
                      password_hash |-> "$2b$10$YourHashedPasswordHere", role |-> "admin",
                      full_name |-> "Administrador", is_active |-> 1])

(* bcrypt: the stored hash of a password; compare accepts a password exactly
   when the hash is the hash of that password *)
bcryptHash(password) ==
  IF password = "admin123" THEN "$2b$10$hash-of-admin123"
  ELSE IF password = "caja123" THEN "$2b$10$hash-of-caja123"
  ELSE "$2b$10$hash-of-another-password"

bcryptCompare(password, hash) == hash = bcryptHash(password)

(* SELECT ... FROM users WHERE username = ? *)
findUserByUsername(table, username) ==
  {i \in DOMAIN table : table[i].username = username}

(* INSERT INTO users; id is the primary key and username is UNIQUE *)
createUser(table, userData) ==
  IF \E i \in DOMAIN table :
       table[i].id = userData.id \/ table[i].username = userData.username
  THEN [users |-> table, err |-> "UNIQUE constraint failed: users"]
  ELSE [users |-> Append(table,
                    [id |-> userData.id, username |-> userData.username,
                     password_hash |-> userData.password_hash,
                     role |-> userData.role,
                     full_name |-> userData.full_name, is_active |-> 1]),
        err |-> NoErr]

(* UPDATE users SET is_active = ? WHERE id = ? *)
toggleUserStatus(table, id, isActive) ==
  [i \in DOMAIN table |->
     IF table[i].id = id
     THEN [table[i] EXCEPT !.is_active = IF isActive THEN 1 ELSE 0]
     ELSE table[i]]

(* ---- AuthService.loginUser ---- *)

(* process.env.JWT_SECRET || "your-secret-key" *)
jwtSecret == "your-secret-key"

(* a check that lets every user through *)
userInactiveNever(user) == FALSE

(* !user.is_active || user.is_active === 0; the column holds 0 or 1 *)
userInactive(user) == user.is_active = 0

UserPayload(user) ==
  [id |-> user.id, name |-> user.full_name, username |-> user.username,
   role |-> user.role]

(* jwt.sign(payload, this.jwtSecret, { expiresIn: "1h" }) *)
jwtSign(payload) ==
  [payload |-> payload, secret |-> jwtSecret, expiresIn |-> "1h"]

(* the first part of loginUser, up to the call of bcrypt.compare: the lookup
   and the checks made on the row it returned *)
loginLookup(table, username) ==
  IF findUserByUsername(table, username) = {}
  THEN [err |-> ErrUserNotFound, user |-> Absent]
  ELSE
    LET user == table[CHOOSE i \in findUserByUsername(table, username) : TRUE]
    IN IF userInactive(user)
       THEN [err |-> ErrUserInactive, user |-> Some(user)]
       ELSE [err |-> NoErr, user |-> Some(user)]

(* the second part, once bcrypt.compare has answered: the password check and
   the token, made from the row read in the first part *)
loginFinish(user, password) ==
  IF ~bcryptCompare(password, user.password_hash)
  THEN [err |-> ErrPassword, response |-> Absent]
  ELSE [err |-> NoErr,
        response |-> Some([user |-> UserPayload(user),
                           token |-> jwtSign(UserPayload(user))])]

(* the four tables as one database value *)
DB ==
  [products |-> products, sales |-> sales,
   sale_items |-> sale_items, stock_movements |-> stock_movements]

(* generateId: an id no row of the table has yet *)
generateId(table) == Len(table) + 1

(* JS `x || d` on an optional number: absent and 0 both give d *)
OrDefault(x, d) == IF x = Absent THEN d ELSE IF Val(x) = 0 THEN d ELSE Val(x)

(* ---- row lookups ---- *)
RowsWithId(table, id) == {i \in DOMAIN table : table[i].id = id}

HasRow(table, id) == RowsWithId(table, id) # {}

RowOf(table, id) == table[CHOOSE i \in RowsWithId(table, id) : TRUE]

(* a read that sees the stock as it was before the transaction began *)
getProductStockCommitted(db, id) == RowOf(products, id).stock

(* SELECT stock FROM products WHERE id = ? *)
getProductStock(db, id) == RowOf(db.products, id).stock

(* stock of every product row, by product id *)
StockMap(db) ==
  [id \in {db.products[i].id : i \in DOMAIN db.products} |->
     RowOf(db.products, id).stock]

(* ---- statements ---- *)
(* the UPDATE without its WHERE clause *)
setStockEveryRow(db, id, newStock) ==
  [db EXCEPT !.products =
     [i \in DOMAIN db.products |-> [db.products[i] EXCEPT !.stock = newStock]]]

(* UPDATE products SET stock = ? WHERE id = ? *)
setStock(db, id, newStock) ==
  [db EXCEPT !.products =
     [i \in DOMAIN db.products |->
        IF db.products[i].id = id
        THEN [db.products[i] EXCEPT !.stock = newStock]
        ELSE db.products[i]]]

(* the decrement applied twice *)
updateStockSoldTwice(db, id, quantity) ==
  setStock(db, id, getProductStock(db, id) - 2 * quantity)

(* create's statement: UPDATE products SET stock = stock - ? WHERE id = ? *)
updateStockSold(db, id, quantity) ==
  setStock(db, id, getProductStock(db, id) - quantity)

(* the cancel statement copied from create without turning the sign *)
updateStockReturnedMinus(db, id, quantity) ==
  setStock(db, id, getProductStock(db, id) - quantity)

(* cancel's statement: UPDATE products SET stock = stock + ? WHERE id = ? *)
updateStockReturned(db, id, quantity) ==
  setStock(db, id, getProductStock(db, id) + quantity)

(* an INSERT OR REPLACE that lands on the newest row of the ledger *)
insertMovementReplace(db, row) ==
  [db EXCEPT !.stock_movements =
     IF Len(@) = 0 THEN Append(@, row) ELSE [@ EXCEPT ![Len(@)] = row]]

(* INSERT INTO stock_movements *)
insertMovement(db, row) ==
  [db EXCEPT !.stock_movements = Append(@, row)]

(* an insert that takes the name from the catalogue instead of the request *)
insertItemCatalogName(db, row) ==
  [db EXCEPT !.sale_items =
     Append(@, [row EXCEPT !.product_name = RowOf(db.products, row.product_id).name])]

(* INSERT INTO sale_items *)
insertItem(db, row) ==
  [db EXCEPT !.sale_items = Append(@, row)]

(* a transaction helper that keeps what the callback wrote before it threw *)
withTransactionNoRollback(db, outcome) == outcome

(* db.transaction(callback)(): commit when the callback returns,
   roll back to the state before it when it throws *)
withTransaction(db, outcome) ==
  IF outcome.err = NoErr THEN outcome ELSE [outcome EXCEPT !.db = db]

(* ---- SalesService.create ---- *)

(* a lookup that skips the cancelled sales of the day *)
SalesOfDayActive(db, day) ==
  {i \in DOMAIN db.sales :
     db.sales[i].created_at = day /\ db.sales[i].is_active = 1}

(* SELECT daily_number FROM sales WHERE DATE(created_at) = DATE(today)
   ORDER BY daily_number DESC LIMIT 1, then lastSale ? n + 1 : 1 *)
SalesOfDay(db, day) == {i \in DOMAIN db.sales : db.sales[i].created_at = day}

MaxDailyNumber(db, day) ==
  CHOOSE n \in {db.sales[i].daily_number : i \in SalesOfDay(db, day)} :
    \A i \in SalesOfDay(db, day) : db.sales[i].daily_number <= n

nextDailyNumber(db, today) ==
  IF SalesOfDay(db, today) = {} THEN 1 ELSE MaxDailyNumber(db, today) + 1

(* an insert that recomputes the total from subtotal, tax and discount *)
insertSaleRecomputed(db, saleId, data, dailyNumber, now) ==
  [db EXCEPT !.sales = Append(@,
     [id |-> saleId,
      total |-> data.subtotal + OrDefault(data.tax, 0) - OrDefault(data.discount, 0),
      subtotal |-> data.subtotal,
      tax |-> OrDefault(data.tax, 0), discount |-> OrDefault(data.discount, 0),
      payment_method |-> data.payment_method,
      cashier_id |-> data.cashier_id, cashier_name |-> data.cashier_name,
      daily_number |-> dailyNumber, is_active |-> 1, created_at |-> now])]

(* INSERT INTO sales: is_active and created_at take the column defaults,
   created_at being the store's clock at the time of the insert *)
insertSale(db, saleId, data, dailyNumber, now) ==
  [db EXCEPT !.sales = Append(@,
     [id |-> saleId, total |-> data.total, subtotal |-> data.subtotal,
      tax |-> OrDefault(data.tax, 0), discount |-> OrDefault(data.discount, 0),
      payment_method |-> data.payment_method,
      cashier_id |-> data.cashier_id, cashier_name |-> data.cashier_name,
      daily_number |-> dailyNumber, is_active |-> 1, created_at |-> now])]

(* a lookup that does not see soft-deleted products *)
findActiveProduct(db, id) ==
  {i \in DOMAIN db.products :
     db.products[i].id = id /\ db.products[i].is_active = 1}

(* the lookup of create and of cancel:
   SELECT stock FROM products WHERE id = ? *)
findProduct(db, id) == {i \in DOMAIN db.products : db.products[i].id = id}

(* a stock check that is off by one *)
insufficientStockOffByOne(stock, quantity) == stock < quantity - 1

(* the stock check of a line: product.stock < item.quantity *)
insufficientStock(stock, quantity) == stock < quantity

(* the loop over data.items, from item k on; stops at the first throw *)
RECURSIVE processItems(_, _, _, _)
processItems(db, data, saleId, k) ==
  IF k > Len(Val(data.items))
  THEN [db |-> db, err |-> NoErr, at |-> 0, available |-> 0, requested |-> 0]
  ELSE
    LET item == Val(data.items)[k] IN
    IF findProduct(db, item.product_id) = {}
    THEN [db |-> db, err |-> ErrItemNotFound, at |-> k,
          available |-> 0, requested |-> 0]
    ELSE
      LET previousStock == getProductStock(db, item.product_id) IN
      IF insufficientStock(previousStock, item.quantity)
      THEN [db |-> db, err |-> ErrStock, at |-> k,
            available |-> previousStock, requested |-> item.quantity]
      ELSE
        LET newStock == previousStock - item.quantity
            db1 == insertItem(db,
                     [id |-> generateId(db.sale_items), sale_id |-> saleId,
                      product_id |-> item.product_id,
                      product_name |-> item.product_name,
                      quantity |-> item.quantity,
                      unit_price |-> item.unit_price,
                      total_price |-> item.total_price])
            db2 == updateStockSold(db1, item.product_id, item.quantity)
            db3 == insertMovement(db2,
                     [id |-> generateId(db2.stock_movements),
                      product_id |-> item.product_id,
                      movement_type |-> "sale",
                      quantity |-> item.quantity,
                      previous_stock |-> previousStock,
                      new_stock |-> newStock,
                      reference_id |-> saleId,
                      notes |-> [text |-> "null", n |-> 0],
                      created_by |-> data.cashier_id])
        IN processItems(db3, data, saleId, k + 1)

(* input checks that forget the total *)
validateSaleNoTotal(data) ==
  IF data.items = Absent THEN ErrNoItems
  ELSE IF Len(Val(data.items)) = 0 THEN ErrNoItems
  ELSE NoErr

(* the input checks made before the transaction is opened *)
validateSale(data) ==
  IF data.items = Absent THEN ErrNoItems
  ELSE IF Len(Val(data.items)) = 0 THEN ErrNoItems
  ELSE IF data.total <= 0 THEN ErrTotal
  ELSE NoErr

(* today: the date read by the service before the lookup;
   now: the date of the store's clock when the header is inserted *)
SalesService_create(db, data, today, now) ==
  IF validateSale(data) # NoErr
  THEN [db |-> db, err |-> validateSale(data), at |-> 0,
        available |-> 0, requested |-> 0]
  ELSE
    LET dailyNumber == nextDailyNumber(db, today)
        saleId == generateId(db.sales)
    IN withTransaction(db,
         IF data.cashier_id \notin Users
         THEN [db |-> db, err |-> ErrForeignKey, at |-> 0,
               available |-> 0, requested |-> 0]
         ELSE processItems(insertSale(db, saleId, data, dailyNumber, now),
                           data, saleId, 1))

(* ---- SalesService.cancel ---- *)

(* the lookup without its is_active condition *)
findAnySale(db, id) == {i \in DOMAIN db.sales : db.sales[i].id = id}

(* SELECT * FROM sales WHERE id = ? AND is_active = 1 *)
findActiveSale(db, id) ==
  {i \in DOMAIN db.sales : db.sales[i].id = id /\ db.sales[i].is_active = 1}

(* a lookup that stops at the sale's first item *)
itemsOfSaleFirst(db, id) ==
  LET items == SelectSeq(db.sale_items, LAMBDA it : it.sale_id = id)
  IN IF Len(items) = 0 THEN items ELSE <<items[1]>>

(* SELECT * FROM sale_items WHERE sale_id = ?, in rowid order *)
itemsOfSale(db, id) ==
  SelectSeq(db.sale_items, LAMBDA it : it.sale_id = id)

(* the movement written with the type of the statement in create *)
compensationAsSale(rowId, item, previousStock, id, userId, dailyNumber) ==
  [id |-> rowId, product_id |-> item.product_id, movement_type |-> "sale",
   quantity |-> item.quantity, previous_stock |-> previousStock,
   new_stock |-> previousStock + item.quantity, reference_id |-> id,
   notes |-> [text |-> "Cancelacion de venta #", n |-> dailyNumber],
   created_by |-> userId]

(* the movement cancel writes for an item *)
compensation(rowId, item, previousStock, id, userId, dailyNumber) ==
  [id |-> rowId, product_id |-> item.product_id, movement_type |-> "adjustment",
   quantity |-> item.quantity, previous_stock |-> previousStock,
   new_stock |-> previousStock + item.quantity, reference_id |-> id,
   notes |-> [text |-> "Cancelacion de venta #", n |-> dailyNumber],
   created_by |-> userId]

(* the loop over the sale's items, from item k on *)
RECURSIVE revertItems(_, _, _, _, _, _)
revertItems(db, items, id, userId, dailyNumber, k) ==
  IF k > Len(items) THEN [db |-> db, err |-> NoErr]
  ELSE
    LET item == items[k] IN
    IF findProduct(db, item.product_id) # {}
    THEN
      LET previousStock == getProductStock(db, item.product_id)
          db1 == updateStockReturned(db, item.product_id, item.quantity)
          db2 == insertMovement(db1,
                   compensation(generateId(db1.stock_movements), item,
                                previousStock, id, userId, dailyNumber))
      IN IF userId \notin Users
         THEN [db |-> db1, err |-> ErrForeignKey]
         ELSE revertItems(db2, items, id, userId, dailyNumber, k + 1)
    ELSE revertItems(db, items, id, userId, dailyNumber, k + 1)

(* a cancel that removes the row: DELETE FROM sales WHERE id = ? *)
cancelSaleDeletes(db, id) ==
  [db EXCEPT !.sales = SelectSeq(@, LAMBDA sale : sale.id # id)]

(* UPDATE sales SET is_active = 0 WHERE id = ? *)
cancelSale(db, id) ==
  [db EXCEPT !.sales =
     [i \in DOMAIN db.sales |->
        IF db.sales[i].id = id
        THEN [db.sales[i] EXCEPT !.is_active = 0]
        ELSE db.sales[i]]]

SalesService_cancel(db, id, userId) ==
  withTransaction(db,
    IF findActiveSale(db, id) = {}
    THEN [db |-> db, err |-> ErrSaleNotFound]
    ELSE
      LET sale == db.sales[CHOOSE i \in findActiveSale(db, id) : TRUE]
          items == itemsOfSale(db, id)
          reverted == revertItems(db, items, id, userId, sale.daily_number, 1)
      IN IF reverted.err # NoErr THEN reverted
         ELSE [db |-> cancelSale(reverted.db, id), err |-> NoErr])

(* ---- ProductService.adjustStock ---- *)

(* the check left out *)
negativeStockAllowed(newStock) == FALSE

(* if (newStock < 0) throw *)
negativeStock(newStock) == newStock < 0

ProductService_adjustStock(db, productId, quantity, reason, userId) ==
  withTransaction(db,
    IF ~HasRow(db.products, productId)
    THEN [db |-> db, err |-> ErrProductNotFound]
    ELSE
      LET previousStock == RowOf(db.products, productId).stock
          newStock == previousStock + quantity
      IN IF negativeStock(newStock)
         THEN [db |-> db, err |-> ErrNegativeStock]
         ELSE IF userId \notin Users
         THEN [db |-> setStock(db, productId, newStock), err |-> ErrForeignKey]
         ELSE [db |-> insertMovement(setStock(db, productId, newStock),
                        [id |-> generateId(db.stock_movements),
                         product_id |-> productId,
                         movement_type |-> "adjustment",
                         quantity |-> quantity,
                         previous_stock |-> previousStock,
                         new_stock |-> newStock,
                         reference_id |-> NoRef,
                         notes |-> [text |-> reason, n |-> 0],
                         created_by |-> userId]),
               err |-> NoErr])

(* ---- ProductService.create / update / delete ---- *)

(* String.prototype.trim on the strings the model uses *)
Trim(str) ==
  IF str = " " THEN "" ELSE IF str = " b1" THEN "b1" ELSE str

(* JS `s?.trim() || null` on an optional string *)
OrNull(x) ==
  IF x = Absent THEN NoBarcode
  ELSE IF Trim(Val(x)) = "" THEN NoBarcode ELSE Trim(Val(x))

(* JS truthiness of an optional string: `if (s)` *)
Truthy(x) == x # Absent /\ Val(x) # ""

(* SELECT * FROM products WHERE barcode = ? AND is_active = 1 *)
getByBarcode(db, barcode) ==
  {i \in DOMAIN db.products :
     db.products[i].barcode = barcode /\ db.products[i].is_active = 1}

(* a uniqueness that only holds among active products *)
barcodeClashActiveOnly(db, barcode, id) ==
  {i \in DOMAIN db.products :
     /\ barcode # NoBarcode
     /\ db.products[i].barcode = barcode
     /\ db.products[i].id # id
     /\ db.products[i].is_active = 1}

(* the UNIQUE constraint of products.barcode, NULLs being all distinct:
   rows other than `id` that hold this non-null barcode *)
barcodeClash(db, barcode, id) ==
  {i \in DOMAIN db.products :
     /\ barcode # NoBarcode
     /\ db.products[i].barcode = barcode
     /\ db.products[i].id # id}

ProductService_create(db, data) ==
  LET id == generateId(db.products) IN
  IF Trim(data.name) = "" THEN [db |-> db, err |-> "El nombre del producto es requerido"]
  ELSE IF data.price = Absent THEN [db |-> db, err |-> ErrPricePositive]
  ELSE IF Val(data.price) < 0 THEN [db |-> db, err |-> ErrPricePositive]
  ELSE IF Truthy(data.barcode) /\ getByBarcode(db, Val(data.barcode)) # {}
  THEN [db |-> db, err |-> ErrBarcodeExists]
  ELSE IF barcodeClash(db, OrNull(data.barcode), id) # {}
  THEN [db |-> db, err |-> ErrUnique]
  ELSE [db |-> [db EXCEPT !.products = Append(@,
                  [id |-> id, name |-> Trim(data.name), price |-> Val(data.price),
                   stock |-> OrDefault(data.stock, 0),
                   min_stock |-> OrDefault(data.min_stock, 5),
                   barcode |-> OrNull(data.barcode), is_active |-> 1])],
        err |-> NoErr]

(* the row after the assignments the update statement is built from *)
updatedRow(row, data) ==
  [row EXCEPT
     !.name = IF data.name = Absent THEN @ ELSE Trim(Val(data.name)),
     !.price = IF data.price = Absent THEN @ ELSE Val(data.price),
     !.stock = IF data.stock = Absent THEN @ ELSE Val(data.stock),
     !.min_stock = IF data.min_stock = Absent THEN @ ELSE Val(data.min_stock),
     !.barcode = IF data.barcode = Absent THEN @ ELSE OrNull(data.barcode),
     !.is_active = IF data.is_active = Absent THEN @
                   ELSE IF Val(data.is_active) THEN 1 ELSE 0]

ProductService_update(db, id, data) ==
  IF ~HasRow(db.products, id) THEN [db |-> db, err |-> ErrProductNotFound]
  ELSE IF data.name # Absent /\ Trim(Val(data.name)) = ""
  THEN [db |-> db, err |-> "El nombre no puede estar vacio"]
  ELSE IF data.price # Absent /\ Val(data.price) < 0
  THEN [db |-> db, err |-> "El precio no puede ser negativo"]
  ELSE IF data.stock # Absent /\ Val(data.stock) < 0
  THEN [db |-> db, err |-> ErrNegativeStock]
  ELSE IF Truthy(data.barcode)
          /\ barcodeClash(db, Val(data.barcode), id) # {}
  THEN [db |-> db, err |-> ErrBarcodeOther]
  ELSE IF barcodeClash(db, OrNull(data.barcode), id) # {}
  THEN [db |-> db, err |-> ErrUnique]
  ELSE [db |-> [db EXCEPT !.products =
                  [i \in DOMAIN db.products |->
                     IF db.products[i].id = id
                     THEN updatedRow(db.products[i], data)
                     ELSE db.products[i]]],
        err |-> NoErr]

(* a delete that removes the row: DELETE FROM products WHERE id = ? *)
ProductService_deleteHard(db, id) ==
  [db |-> [db EXCEPT !.products = SelectSeq(@, LAMBDA row : row.id # id)],
   err |-> NoErr]

(* UPDATE products SET is_active = 0 WHERE id = ? *)
ProductService_delete(db, id) ==
  [db |-> [db EXCEPT !.products =
             [i \in DOMAIN db.products |->
                IF db.products[i].id = id
                THEN [db.products[i] EXCEPT !.is_active = 0]
                ELSE db.products[i]]],
   err |-> NoErr]

(* ---- ProductService.getStats ---- *)

(* stock * price of the active rows *)
RECURSIVE StockValue(_)
StockValue(rows) ==
  IF Len(rows) = 0 THEN 0
  ELSE (IF rows[1].is_active = 1 THEN rows[1].stock * rows[1].price ELSE 0)
       + StockValue(Tail(rows))

(* SUM(...) over the table: NULL when the table has no row *)
sum(rows, n) == IF Len(rows) = 0 THEN Absent ELSE Some(n)

(* the rows each CASE WHEN ... THEN 1 ELSE 0 END counts *)
getStats(db) ==
  LET rows == db.products
      active == {i \in DOMAIN rows : rows[i].is_active = 1}
      lowStock == {i \in DOMAIN rows : /\ rows[i].stock <= rows[i].min_stock
                                        /\ rows[i].stock > 0
                                        /\ rows[i].is_active = 1}
      outOfStock == {i \in DOMAIN rows : /\ rows[i].stock = 0
                                          /\ rows[i].is_active = 1}
  IN [total |-> Len(rows),
      active |-> sum(rows, Cardinality(active)),
      lowStock |-> sum(rows, Cardinality(lowStock)),
      outOfStock |-> sum(rows, Cardinality(outOfStock)),
      totalValue |-> sum(rows, StockValue(rows))]

(* ---- SalesService.getMetrics ---- *)

(* the optional filters: DATE(created_at) >= DATE(from) when from is given,
   DATE(created_at) <= DATE(to) when to is given *)
inRange(row, from, to) ==
  /\ (from # Absent => row.created_at >= Val(from))
  /\ (to # Absent => row.created_at <= Val(to))

(* a CASE that forgets is_active *)
activeTotalAnySale(row) == row.total

(* CASE WHEN is_active = 1 THEN total ELSE 0 END *)
activeTotal(row) == IF row.is_active = 1 THEN row.total ELSE 0

(* the aggregates over the rows the WHERE clause keeps, row by row *)
RECURSIVE aggregateSales(_, _, _)
aggregateSales(rows, from, to) ==
  IF Len(rows) = 0
  THEN [totalSales |-> 0, totalTickets |-> 0, cancelledSales |-> 0]
  ELSE
    LET rest == aggregateSales(Tail(rows), from, to)
        row == rows[1]
    IN IF ~inRange(row, from, to) THEN rest
       ELSE [totalSales |-> rest.totalSales + activeTotal(row),
             totalTickets |->
               rest.totalTickets + (IF row.is_active = 1 THEN 1 ELSE 0),
             cancelledSales |->
               rest.cancelledSales + (IF row.is_active = 0 THEN 1 ELSE 0)]

(* averageTicket is the quotient num / den; COALESCE(AVG(...), 0) over no
   active sale is 0 *)
getMetrics(db, from, to) ==
  LET a == aggregateSales(db.sales, from, to) IN
  [totalSales |-> a.totalSales,
   totalTickets |-> a.totalTickets,
   averageTicket |->
     IF a.totalTickets = 0 THEN [num |-> 0, den |-> 1]
     ELSE [num |-> a.totalSales, den |-> a.totalTickets],
   cancelledSales |-> a.cancelledSales]

(* ---- SalesService.getTopProducts ---- *)

(* limit: number = 10 *)
DefaultLimit == 10

(* sale_items INNER JOIN sales ON si.sale_id = s.id WHERE s.is_active = 1
   and the date filters: the item rows the query keeps *)
joined(db, from, to) ==
  {j \in DOMAIN db.sale_items :
     \E i \in DOMAIN db.sales :
       /\ db.sales[i].id = db.sale_items[j].sale_id
       /\ db.sales[i].is_active = 1
       /\ inRange(db.sales[i], from, to)}

(* GROUP BY si.product_id, si.product_name *)
groupKey(item) == <<item.product_id, item.product_name>>

(* SUM(si.quantity), SUM(si.total_price) over the first k item rows of a
   group *)
RECURSIVE sumGroup(_, _, _, _, _)
sumGroup(db, key, from, to, k) ==
  IF k = 0 THEN [quantity |-> 0, revenue |-> 0]
  ELSE
    LET rest == sumGroup(db, key, from, to, k - 1)
        item == db.sale_items[k]
    IN IF k \in joined(db, from, to) /\ groupKey(item) = key
       THEN [quantity |-> rest.quantity + item.quantity,
             revenue |-> rest.revenue + item.total_price]
       ELSE rest

groups(db, from, to) ==
  {LET key == groupKey(db.sale_items[j])
       total == sumGroup(db, key, from, to, Len(db.sale_items))
   IN [product_id |-> key[1], product_name |-> key[2],
       quantity |-> total.quantity, revenue |-> total.revenue] :
   j \in joined(db, from, to)}

(* ORDER BY quantity DESC: every order of the groups in which no entry
   follows one of smaller quantity; the order among equal quantities is the
   database's choice *)
orderings(entries) ==
  {q \in [1..Cardinality(entries) -> entries] :
     /\ \A a, b \in DOMAIN q : a # b => q[a] # q[b]
     /\ \A a, b \in DOMAIN q : a < b => q[a].quantity >= q[b].quantity}

(* LIMIT ?: a negative limit means no limit *)
limitRows(q, limit) ==
  IF limit < 0 \/ limit >= Len(q) THEN q ELSE SubSeq(q, 1, limit)

(* the results the query can return *)
getTopProducts(db, limit, from, to) ==
  {limitRows(q, IF limit = Absent THEN DefaultLimit ELSE Val(limit)) :
     q \in orderings(groups(db, from, to))}

(* ---- inputs of the operations ---- *)
ProductIds == 1..(MaxProducts + 1)
SaleIds == 1..MaxSales
Deltas == ((0 - MaxQty)..MaxQty) \ {0}
UserInputs == {"admin-001", "nobody"}

SaleInput(items, h) ==
  [items |-> items, total |-> h.total, subtotal |-> h.subtotal, tax |-> h.tax,
   discount |-> h.discount, payment_method |-> h.payment_method,
   cashier_id |-> h.cashier_id, cashier_name |-> h.cashier_name]

SaleInputs ==
  {SaleInput(items, h) :
     items \in {Absent}
       \cup {Some(l) : l \in UNION {[1..n ->
                [product_id : ProductIds, product_name : {"Libro"},
                 quantity : {0 - 1} \cup 1..MaxQty,
                 unit_price : {1}, total_price : {1}]] : n \in 0..MaxItems}},
     h \in [total : {0, 5}, subtotal : {5}, tax : {Absent}, discount : {Absent},
            payment_method : {"cash"}, cashier_id : {"admin-001"},
            cashier_name : {"Administrador"}]}

(* well-formed single-line sales, for the behaviours whose subject is the
   catalogue or the calendar *)
ShortSaleInputs ==
  {data \in SaleInputs :
     /\ data.items # Absent
     /\ Len(Val(data.items)) = 1
     /\ Val(data.items)[1].quantity > 0
     /\ data.total > 0}

NoUpdate ==
  [name |-> Absent, price |-> Absent, stock |-> Absent, min_stock |-> Absent,
   barcode |-> Absent, is_active |-> Absent]

(* what the till submits: lines for catalogue products with the name, unit
   price and line total shown on the ticket, under a header with or without
   tax and discount; nothing in it adds up *)
TillSaleInputs ==
  {SaleInput(Some(items), h) :
     items \in UNION {[1..n ->
                [product_id : 1..MaxProducts, product_name : {"Libro en oferta"},
                 quantity : 1..MaxQty, unit_price : {2}, total_price : {3}]] :
                       n \in 1..MaxItems},
     h \in {[total |-> 5, subtotal |-> 5, tax |-> Absent, discount |-> Absent,
             payment_method |-> "cash", cashier_id |-> "admin-001",
             cashier_name |-> "Administrador"],
            [total |-> 7, subtotal |-> 5, tax |-> Some(1), discount |-> Some(2),
             payment_method |-> "card", cashier_id |-> "admin-001",
             cashier_name |-> "Administrador"]}}

(* products entered with a scanned or a typed barcode, the typed one with a
   leading blank *)
BarcodeInputs == {Absent, Some("b1"), Some(" b1"), Some("b2")}

(* the optional dates of a report *)
DateInputs == {Absent} \cup {Some(d) : d \in 0..MaxDay}

(* what the counter submits for one product: a one-line ticket carrying the
   name the catalogue shows for it at that moment *)
CounterSaleInput(product, quantity, total) ==
  SaleInput(Some(<<[product_id |-> product.id, product_name |-> product.name,
                    quantity |-> quantity, unit_price |-> 2,
                    total_price |-> 2 * quantity]>>),
            [total |-> total, subtotal |-> total, tax |-> Absent,
             discount |-> Absent, payment_method |-> "cash",
             cashier_id |-> "admin-001", cashier_name |-> "Administrador"])

(* the products the shop starts selling with: each created by
   ProductService.create with a stock that is absent or positive *)
RECURSIVE CatalogsOf(_, _)
CatalogsOf(dbs, n) ==
  IF n = 0 THEN dbs
  ELSE CatalogsOf({ProductService_create(db, data).db :
                     db \in dbs,
                     data \in [name : {"Libro"}, price : {Some(1)},
                               stock : {Absent, Some(MaxStock)},
                               min_stock : {Absent}, barcode : {Absent}]}, n - 1)

(* ---- the state machine ---- *)
NoPreSale == [id |-> 0, stocks |-> <<>>]

(* a handler that answers success whatever the service did *)
respondSwallowing(err) == [success |-> TRUE, error |-> Absent]

(* the handlers' try/catch: {success: true, ...} when the service returned,
   {success: false, error: error.message} when it threw *)
respond(err) ==
  IF err = NoErr THEN [success |-> TRUE, error |-> Absent]
  ELSE [success |-> FALSE, error |-> Some(err)]

(* what the latest call was, what it was given, how the service ended, what
   the handler answered and, for a query, the data it returned *)
Outcome(op, input, err, id, at, available, requested) ==
  [op |-> op, input |-> input, err |-> err, id |-> id, at |-> at,
   available |-> available, requested |-> requested,
   reply |-> respond(err), data |-> Absent]

(* no call is being answered: the renderer may issue its next request *)
Idle == Outcome("idle", Absent, NoErr, 0, 0, 0, 0)

(* the migrations runMigrations knows, in the order of its list *)
Migrations == <<1, 2>>

(* no request in flight; the database open with every migration applied *)
Opened ==
  /\ pending = <<>>
  /\ answers = <<>>
  /\ conn = "ready"
  /\ schema_version = {Migrations[i] : i \in DOMAIN Migrations}
  /\ schema = {Migrations[i] : i \in DOMAIN Migrations}
  /\ migration = [currentVersion |-> 0, next |-> 0]
  /\ attempts = <<>>
  /\ users = seedAdmin(<<>>)

(* the shop with its catalogue entered and nothing sold yet *)
Init ==
  /\ Opened
  /\ \E db \in CatalogsOf({[products |-> <<>>, sales |-> <<>>, sale_items |-> <<>>,
                              stock_movements |-> <<>>]}, MaxProducts) :
        products = db.products
  /\ sales = <<>>
  /\ sale_items = <<>>
  /\ stock_movements = <<>>
  /\ clock = 0
  /\ last = Idle
  /\ prev = NoPreSale

(* the store right after the migrations: every table empty *)
InitEmpty ==
  /\ Opened
  /\ products = <<>>
  /\ sales = <<>>
  /\ sale_items = <<>>
  /\ stock_movements = <<>>
  /\ clock = 0
  /\ last = Idle
  /\ prev = NoPreSale

(* the model keeps the tables and the stock values within its bounds *)
Bounded(db) ==
  /\ Len(db.products) <= MaxProducts
  /\ Len(db.sales) <= MaxSales
  /\ Len(db.stock_movements) <= MaxLedger
  /\ \A i \in DOMAIN db.products :
       /\ db.products[i].stock <= MaxStock
       /\ db.products[i].stock >= 0 - MaxStock

Commit(db) ==
  /\ Bounded(db)
  /\ products' = db.products
  /\ sales' = db.sales
  /\ sale_items' = db.sale_items
  /\ stock_movements' = db.stock_movements

(* prev remembers the stocks before the latest successful createSale for as
   long as nothing else has changed the database *)
KeepPrev(db) == prev' = IF db = DB THEN prev ELSE NoPreSale

CreateSaleWith(data, now) ==
  LET r == SalesService_create(DB, data, clock, now) IN
  /\ last = Idle
  /\ UNCHANGED <<cancelVars, startupVars>>
  /\ Commit(r.db)
  /\ clock' = now
  /\ last' = Outcome("createSale", data, r.err,
                     IF r.err = NoErr THEN Len(r.db.sales) ELSE 0,
                     r.at, r.available, r.requested)
  /\ prev' = IF r.err = NoErr
             THEN [id |-> Len(r.db.sales), stocks |-> StockMap(DB)]
             ELSE prev

(* a sale made while the date does not change *)
CreateSale == \E data \in SaleInputs : CreateSaleWith(data, clock)

CreateSaleByAnyone ==
  \E sale \in SaleInputs, userId \in UserInputs :
     CreateSaleWith([sale EXCEPT !.cashier_id = userId], clock)

CreateShortSale == \E data \in ShortSaleInputs : CreateSaleWith(data, clock)

(* a sale during which the date may change *)
CreateSaleAtMidnight ==
  \E data \in ShortSaleInputs,
     now \in {clock} \cup (IF clock < MaxDay THEN {clock + 1} ELSE {}) :
     CreateSaleWith(data, now)

CancelWith(id, userId) ==
  LET r == SalesService_cancel(DB, id, userId) IN
  /\ last = Idle
  /\ UNCHANGED <<cancelVars, startupVars>>
  /\ Commit(r.db)
  /\ last' = Outcome("cancel", <<id, userId>>, r.err, id, 0, 0, 0)
  /\ KeepPrev(r.db)
  /\ UNCHANGED clock

Cancel == \E id \in SaleIds, userId \in UserInputs : CancelWith(id, userId)

AdjustStockWith(productId, quantity, reason, userId) ==
  LET r == ProductService_adjustStock(DB, productId, quantity, reason, userId) IN
  /\ last = Idle
  /\ UNCHANGED <<cancelVars, startupVars>>
  /\ Commit(r.db)
  /\ last' = Outcome("adjustStock", <<productId, quantity, reason, userId>>,
                     r.err, productId, 0, 0, 0)
  /\ KeepPrev(r.db)
  /\ UNCHANGED clock

AdjustStock ==
  \E productId \in ProductIds, quantity \in Deltas, userId \in UserInputs :
    AdjustStockWith(productId, quantity, "ajuste", userId)

CreateProductWith(data) ==
  LET r == ProductService_create(DB, data) IN
  /\ last = Idle
  /\ UNCHANGED <<cancelVars, startupVars>>
  /\ Commit(r.db)
  /\ last' = Outcome("createProduct", data, r.err,
                     IF r.err = NoErr THEN Len(r.db.products) ELSE 0, 0, 0, 0)
  /\ KeepPrev(r.db)
  /\ UNCHANGED clock

CreateProduct ==
  \E data \in [name : {"Libro"}, price : {Some(1)},
                stock : {Absent, Some(0 - 1), Some(MaxStock)},
                min_stock : {Absent}, barcode : {Absent, Some("b1")}] :
     CreateProductWith(data)

UpdateProductWith(id, data) ==
  LET r == ProductService_update(DB, id, data) IN
  /\ last = Idle
  /\ UNCHANGED <<cancelVars, startupVars>>
  /\ Commit(r.db)
  /\ last' = Outcome("updateProduct", data, r.err, id, 0, 0, 0)
  /\ KeepPrev(r.db)
  /\ UNCHANGED clock

UpdateProduct ==
  \E id \in ProductIds,
     data \in {NoUpdate}
               \cup {[NoUpdate EXCEPT !.stock = Some(v)] : v \in {0 - 1, MaxStock}}
               \cup {[NoUpdate EXCEPT !.barcode = Some(b)] : b \in {"b1"}}
               \cup {[NoUpdate EXCEPT !.is_active = Some(a)] : a \in {TRUE}} :
     UpdateProductWith(id, data)

DeleteProductWith(id) ==
  LET r == ProductService_delete(DB, id) IN
  /\ last = Idle
  /\ UNCHANGED <<cancelVars, startupVars>>
  /\ Commit(r.db)
  /\ last' = Outcome("deleteProduct", <<id>>, r.err, id, 0, 0, 0)
  /\ KeepPrev(r.db)
  /\ UNCHANGED clock

DeleteProduct == \E id \in ProductIds : DeleteProductWith(id)

CreateLabelledProduct ==
  \E data \in [name : {"Libro"}, price : {Some(1)}, stock : {Absent},
                min_stock : {Absent}, barcode : BarcodeInputs] :
     CreateProductWith(data)

RelabelProduct ==
  \E id \in ProductIds,
     data \in {[NoUpdate EXCEPT !.barcode = b] : b \in BarcodeInputs \ {Absent}}
               \cup {[NoUpdate EXCEPT !.barcode = Some("")]}
               \cup {[NoUpdate EXCEPT !.is_active = Some(TRUE)]} :
     UpdateProductWith(id, data)

CreateShelfProduct ==
  \E data \in [name : {"Libro"}, price : {Some(1)},
                stock : {Absent, Some(1), Some(MaxStock)},
                min_stock : {Absent, Some(1)}, barcode : {Absent}] :
     CreateProductWith(data)

(* products:getStats *)
GetStats ==
  /\ last = Idle
  /\ last' = [Outcome("getStats", Absent, NoErr, 0, 0, 0, 0)
               EXCEPT !.data = Some(getStats(DB))]
  /\ UNCHANGED <<products, sales, sale_items, stock_movements, clock, prev>>
  /\ UNCHANGED <<cancelVars, startupVars>>

CreateCounterSale ==
  \E i \in DOMAIN products, quantity \in 1..MaxQty, total \in {5, 7} :
    CreateSaleWith(CounterSaleInput(products[i], quantity, total), clock)

(* a one-line ticket whose total is the total of its line *)
CreateExactSale ==
  \E i \in DOMAIN products, quantity \in 1..MaxQty :
    CreateSaleWith(CounterSaleInput(products[i], quantity, 2 * quantity), clock)

(* the administrator cancels a sale *)
CancelByAdmin == \E id \in SaleIds : CancelWith(id, "admin-001")

(* sales:getMetrics *)
GetMetrics ==
  \E from \in DateInputs, to \in DateInputs :
    /\ last = Idle
    /\ last' = [Outcome("getMetrics", <<from, to>>, NoErr, 0, 0, 0, 0)
                 EXCEPT !.data = Some(getMetrics(DB, from, to))]
    /\ UNCHANGED <<products, sales, sale_items, stock_movements, clock, prev>>
    /\ UNCHANGED <<cancelVars, startupVars>>

(* sales:getTopProducts *)
GetTopProducts ==
  \E limit \in {Absent, Some(0), Some(1)}, from \in DateInputs, to \in DateInputs :
    \E rows \in getTopProducts(DB, limit, from, to) :
      /\ last = Idle
      /\ last' = [Outcome("getTopProducts", <<limit, from, to>>, NoErr,
                           0, 0, 0, 0)
                   EXCEPT !.data = Some(rows)]
      /\ UNCHANGED <<products, sales, sale_items, stock_movements, clock, prev>>
      /\ UNCHANGED <<cancelVars, startupVars>>

CreateTillSale == \E data \in TillSaleInputs : CreateSaleWith(data, clock)

RenameProduct ==
  \E id \in ProductIds :
     UpdateProductWith(id, [NoUpdate EXCEPT !.name = Some("Cuaderno")])

(* a ticket without tax or discount *)
CreatePlainSale ==
  \E data \in {d \in TillSaleInputs : d.tax = Absent} :
    CreateSaleWith(data, clock)

(* the renderer sends a cancel request for a sale on its screen without
   awaiting the ones it sent before *)
RequestCancel ==
  \E i \in DOMAIN sales, userId \in UserInputs :
    /\ Len(pending) + Len(answers) < MaxRequests
    /\ pending' = Append(pending, [id |-> sales[i].id, userId |-> userId])
    /\ UNCHANGED <<products, sales, sale_items, stock_movements, clock, last,
                   prev, answers, startupVars>>

(* the main process handles one of the requests in flight, whichever reaches
   it first: the handler body is synchronous and runs to its end *)
HandleCancel ==
  \E i \in DOMAIN pending :
    LET r == SalesService_cancel(DB, pending[i].id, pending[i].userId) IN
    /\ Commit(r.db)
    /\ pending' = SubSeq(pending, 1, i - 1) \o SubSeq(pending, i + 1, Len(pending))
    /\ answers' = Append(answers, [id |-> pending[i].id,
                                    userId |-> pending[i].userId,
                                    err |-> r.err])
    /\ KeepPrev(r.db)
    /\ UNCHANGED <<clock, last, startupVars>>

(* the calendar date advances between operations *)
Tick ==
  /\ last = Idle
  /\ clock < MaxDay
  /\ clock' = clock + 1
  /\ UNCHANGED <<products, sales, sale_items, stock_movements, last, prev>>
  /\ UNCHANGED <<cancelVars, startupVars>>

(* the handler's return value reaches the renderer, which awaits it before
   its next request *)
Reply ==
  /\ last # Idle
  /\ last' = Idle
  /\ UNCHANGED <<products, sales, sale_items, stock_movements, clock, prev>>
  /\ UNCHANGED <<cancelVars, startupVars>>

(* the sales engine on a fixed catalogue, within one calendar day *)
Ledger == Len(stock_movements') <= MaxMoves

Next ==
  \/ CreateSale /\ Ledger
  \/ Cancel /\ Ledger
  \/ AdjustStock /\ Ledger
  \/ Reply

Spec == Init /\ [][Next]_vars

(* the sales engine together with the catalogue operations *)
ShortLedger == Len(stock_movements') <= MaxCatalogMoves

NextCatalog ==
  \/ CreateShortSale /\ ShortLedger
  \/ Cancel /\ ShortLedger
  \/ AdjustStock /\ ShortLedger
  \/ CreateProduct
  \/ UpdateProduct
  \/ DeleteProduct
  \/ Reply

SpecCatalog == InitEmpty /\ [][NextCatalog]_vars

(* sales and cancellations over several calendar days *)
NextDays ==
  \/ CreateSaleAtMidnight /\ Ledger
  \/ Cancel /\ Ledger
  \/ Tick
  \/ Reply

SpecDays == Init /\ [][NextDays]_vars

(* the till: whole tickets sold and cancelled while the catalogue is edited *)
NextTill ==
  \/ CreateTillSale
  \/ Cancel
  \/ RenameProduct
  \/ DeleteProduct
  \/ Reply

(* the shop opening with every shelf full *)
InitStocked ==
  /\ Init
  /\ \A i \in DOMAIN products : products[i].stock = MaxStock

SpecTill == InitStocked /\ [][NextTill]_vars

(* the catalogue and its barcodes *)
NextBarcodes ==
  \/ CreateLabelledProduct
  \/ RelabelProduct
  \/ DeleteProduct
  \/ Reply

SpecBarcodes == InitEmpty /\ [][NextBarcodes]_vars

(* ---- opening the database: getDatabase and runMigrations ---- *)

(* the schema changes in the file and the rows of schema_version *)
Store == [schema |-> schema, schema_version |-> schema_version]

(* SELECT COALESCE(MAX(version), 0) FROM schema_version *)
currentVersionOf(versions) ==
  IF versions = {} THEN 0
  ELSE CHOOSE v \in versions : \A w \in versions : w <= v

(* migration.version > currentVersion.version *)
isPending(version, currentVersion) == version > currentVersion

(* the callback of a migration's transaction, stopped where it throws:
   "up" inside migration.up, "insert" at the INSERT INTO schema_version,
   which also throws when the version is already a row of the table *)
migrate(store, version, failure) ==
  IF failure = "up"
  THEN [db |-> [store EXCEPT !.schema = @ \cup {version}], err |-> "up"]
  ELSE IF failure = "insert" \/ version \in store.schema_version
  THEN [db |-> [store EXCEPT !.schema = @ \cup {version}], err |-> "insert"]
  ELSE [db |-> [schema |-> store.schema \cup {version},
                schema_version |-> store.schema_version \cup {version}],
        err |-> NoErr]

(* a transaction that keeps what the callback did before it threw *)
transactionKeepsPartial(store, outcome) == outcome

(* db.transaction(() => { migration.up(db); INSERT ... })(): both or none *)
transaction(store, outcome) ==
  IF outcome.err = NoErr THEN outcome ELSE [outcome EXCEPT !.db = store]

(* the application starts: getDatabase opens the file, creates schema_version
   if it is missing and reads the current version *)
Launch ==
  /\ conn = "closed"
  /\ conn' = "migrating"
  /\ migration' = [currentVersion |-> currentVersionOf(schema_version),
                    next |-> 1]
  /\ UNCHANGED <<products, sales, sale_items, stock_movements, clock, last,
                  prev, cancelVars, schema_version, schema, attempts, users>>

(* one turn of the loop over the migrations: a pending migration runs in its
   transaction, and a throw leaves runMigrations and getDatabase, main's
   catch quits the application and before-quit closes the database *)
RunMigration ==
  \E failure \in {NoErr, "up", "insert"} :
    LET version == Migrations[migration.next]
        r == transaction(Store, migrate(Store, version, failure))
    IN /\ conn = "migrating"
       /\ migration.next <= Len(Migrations)
       /\ failure # NoErr => Len(attempts) < MaxFailedStartups
       /\ IF isPending(version, migration.currentVersion)
          THEN /\ schema' = r.db.schema
               /\ schema_version' = r.db.schema_version
               /\ attempts' = Append(attempts, [version |-> version,
                                                 err |-> r.err])
               /\ users' = IF r.err = NoErr /\ version = 1
                           THEN seedAdmin(users) ELSE users
               /\ IF r.err = NoErr
                  THEN /\ conn' = conn
                       /\ migration' = [migration EXCEPT !.next = @ + 1]
                  ELSE /\ conn' = "closed"
                       /\ migration' = migration
          ELSE /\ failure = NoErr
               /\ migration' = [migration EXCEPT !.next = @ + 1]
               /\ UNCHANGED <<conn, schema, schema_version, attempts, users>>
       /\ UNCHANGED <<products, sales, sale_items, stock_movements, clock,
                       last, prev, cancelVars>>

(* runMigrations returns and getDatabase hands out the connection *)
FinishStartup ==
  /\ conn = "migrating"
  /\ migration.next > Len(Migrations)
  /\ conn' = "ready"
  /\ UNCHANGED <<products, sales, sale_items, stock_movements, clock, last,
                  prev, cancelVars, schema_version, schema, migration,
                  attempts, users>>

(* the application quits: before-quit calls closeDatabase *)
Quit ==
  /\ conn = "ready"
  /\ last = Idle
  /\ conn' = "closed"
  /\ UNCHANGED <<products, sales, sale_items, stock_movements, clock, last,
                  prev, cancelVars, schema_version, schema, migration,
                  attempts, users>>

(* a new installation: no database file yet, the application not started *)
InitFresh ==
  /\ products = <<>>
  /\ sales = <<>>
  /\ sale_items = <<>>
  /\ stock_movements = <<>>
  /\ clock = 0
  /\ last = Idle
  /\ prev = NoPreSale
  /\ pending = <<>>
  /\ answers = <<>>
  /\ conn = "closed"
  /\ schema_version = {}
  /\ schema = {}
  /\ migration = [currentVersion |-> 0, next |-> 0]
  /\ attempts = <<>>
  /\ users = <<>>

(* startups, products entered while the application runs, and quits *)
NextStartup ==
  \/ Launch
  \/ RunMigration
  \/ FinishStartup
  \/ Quit
  \/ conn = "ready" /\ CreateShelfProduct
  \/ Reply

SpecStartup == InitFresh /\ [][NextStartup]_vars

(* ---- the renderer-side API and the handlers' parameters ---- *)

(* what travels from the renderer to a handler: a plain value, an object
   with named fields, or nothing in that position *)
Object(fields) == [kind |-> "object", fields |-> fields]

(* electronAPI.sales.cancel: ipcRenderer.invoke("sales:cancel", {id, userId}) *)
electronAPI_sales_cancel(id, userId) ==
  <<Object([id |-> id, userId |-> userId])>>

(* electronAPI.products.adjustStock: ipcRenderer.invoke(
   "products:adjustStock", {productId, quantity, reason, userId}) *)
electronAPI_products_adjustStock(productId, quantity, reason, userId) ==
  <<Object([productId |-> productId, quantity |-> quantity,
            reason |-> reason, userId |-> userId])>>

(* the k-th parameter of a handler after _event *)
Parameter(args, k) == IF k <= Len(args) THEN args[k] ELSE [kind |-> "undefined"]

(* salesService.cancel as the handler calls it. With plain values it is the
   service; with an object or nothing where an id is expected the statement
   cannot bind its parameter: the driver throws, or finds no row *)
cancelCalled(db, id, userId) ==
  IF id.kind = "value" /\ userId.kind = "value"
  THEN {SalesService_cancel(db, id.v, userId.v)}
  ELSE {[db |-> db, err |-> e] : e \in {ErrBinding, ErrSaleNotFound}}

(* productService.adjustStock as the handler calls it *)
adjustStockCalled(db, productId, quantity, reason, userId) ==
  IF /\ productId.kind = "value" /\ quantity.kind = "value"
     /\ reason.kind = "value" /\ userId.kind = "value"
  THEN {ProductService_adjustStock(db, productId.v, quantity.v, reason.v,
                                   userId.v)}
  ELSE {[db |-> db, err |-> e] : e \in {ErrBinding, ErrProductNotFound}}

(* the renderer calls electronAPI.sales.cancel(id, userId); last.data holds
   the arguments salesService.cancel was invoked with *)
ApiCancel ==
  \E id \in SaleIds, userId \in UserInputs :
    LET args == electronAPI_sales_cancel(id, userId)
        called == <<Parameter(args, 1), Parameter(args, 2)>>
    IN \E r \in cancelCalled(DB, called[1], called[2]) :
         /\ last = Idle
         /\ Commit(r.db)
         /\ last' = [Outcome("electronAPI.sales.cancel", <<id, userId>>,
                              r.err, 0, 0, 0, 0)
                      EXCEPT !.data = Some(called)]
         /\ KeepPrev(r.db)
         /\ UNCHANGED <<clock, cancelVars, startupVars>>

(* the renderer calls electronAPI.products.adjustStock(productId, quantity,
   reason, userId) *)
ApiAdjustStock ==
  \E productId \in ProductIds, quantity \in Deltas, userId \in UserInputs :
    LET args == electronAPI_products_adjustStock(productId, quantity,
                                                 "ajuste", userId)
        called == <<Parameter(args, 1), Parameter(args, 2),
                    Parameter(args, 3), Parameter(args, 4)>>
    IN \E r \in adjustStockCalled(DB, called[1], called[2], called[3],
                                    called[4]) :
         /\ last = Idle
         /\ Commit(r.db)
         /\ last' = [Outcome("electronAPI.products.adjustStock",
                              <<productId, quantity, "ajuste", userId>>,
                              r.err, 0, 0, 0, 0)
                      EXCEPT !.data = Some(called)]
         /\ KeepPrev(r.db)
         /\ UNCHANGED <<clock, cancelVars, startupVars>>

(* ---- accounts and logins ---- *)

CreateUser ==
  \E userData \in [id : {"u-1", "u-2", "admin-001"},
                    username : {"caja", "ana", "admin"},
                    password_hash : {bcryptHash("caja123"), bcryptHash("admin123")},
                    full_name : {"Caja"}, role : {"cashier"}] :
    LET r == createUser(users, userData) IN
    /\ last = Idle
    /\ Len(r.users) <= MaxUsers
    /\ users' = r.users
    /\ last' = Outcome("createUser", userData, r.err, 0, 0, 0, 0)
    /\ UNCHANGED <<products, sales, sale_items, stock_movements, clock, prev,
                    cancelVars, conn, schema_version, schema, migration,
                    attempts>>

(* an account is switched off or on, between requests or while a login is
   waiting for bcrypt *)
ToggleUserStatus ==
  \E i \in DOMAIN users, isActive \in BOOLEAN :
    /\ last.op \in {"idle", "loginUser.compare"}
    /\ users' = toggleUserStatus(users, users[i].id, isActive)
    /\ users' # users
    /\ UNCHANGED <<products, sales, sale_items, stock_movements, clock, last,
                    prev, cancelVars, conn, schema_version, schema, migration,
                    attempts>>

(* auth:login, up to the await of bcrypt.compare; last.data holds the row
   loginUser read *)
LoginLookup ==
  \E username \in {"admin", "caja", "nadie"}, password \in {"admin123", "caja123"} :
    LET r == loginLookup(users, username) IN
    /\ last = Idle
    /\ last' = [Outcome(IF r.err = NoErr THEN "loginUser.compare"
                         ELSE "loginUser",
                         <<username, password>>, r.err, 0, 0, 0, 0)
                 EXCEPT !.data = Some([read |-> r.user, response |-> Absent])]
    /\ UNCHANGED <<products, sales, sale_items, stock_movements, clock, prev,
                    cancelVars, startupVars>>

(* bcrypt.compare has answered and loginUser runs to its end *)
LoginFinish ==
  LET user == Val(Val(last.data).read)
      r == loginFinish(user, last.input[2])
  IN /\ last.op = "loginUser.compare"
     /\ last' = [Outcome("loginUser", last.input, r.err, 0, 0, 0, 0)
                  EXCEPT !.data = Some([read |-> Some(user),
                                        response |-> r.response])]
     /\ UNCHANGED <<products, sales, sale_items, stock_movements, clock, prev,
                     cancelVars, startupVars>>

(* the answer of a finished request reaches the renderer *)
ReplyLogin == last.op # "loginUser.compare" /\ Reply

NextLogin ==
  \/ CreateUser
  \/ ToggleUserStatus
  \/ LoginLookup
  \/ LoginFinish
  \/ ReplyLogin

SpecLogin == InitEmpty /\ [][NextLogin]_vars

(* the till and the two renderer calls that take several arguments *)
NextBridge ==
  \/ CreatePlainSale
  \/ ApiCancel
  \/ ApiAdjustStock
  \/ Reply

SpecBridge == InitStocked /\ [][NextBridge]_vars

(* sale requests of every shape, refused or accepted *)
NextRequests ==
  \/ CreateSaleByAnyone /\ Ledger
  \/ Reply

SpecRequests == Init /\ [][NextRequests]_vars

(* the counter over the days and the metrics drawn from its sales *)
NextMetrics ==
  \/ CreateCounterSale
  \/ CancelByAdmin
  \/ Tick
  \/ GetMetrics
  \/ Reply

SpecMetrics == InitStocked /\ [][NextMetrics]_vars

(* the counter, a catalogue whose products get renamed, and the ranking of
   the products sold *)
NextTopProducts ==
  \/ CreateExactSale
  \/ CancelByAdmin
  \/ RenameProduct
  \/ Tick
  \/ GetTopProducts
  \/ Reply

SpecTopProducts == InitStocked /\ [][NextTopProducts]_vars

(* the shelves and their statistics *)
NextStats ==
  \/ CreateShelfProduct
  \/ DeleteProduct
  \/ GetStats
  \/ Reply

SpecStats == InitEmpty /\ [][NextStats]_vars

(* whole tickets and cancel requests that overtake one another *)
NextCancels ==
  \/ CreatePlainSale
  \/ RequestCancel
  \/ HandleCancel
  \/ Reply

SpecCancels == InitStocked /\ [][NextCancels]_vars

(* ======================================================================= *)
(* Properties                                                              *)
(* ======================================================================= *)

(* the four tables are what they were before the step *)
UnchangedDB == DB' = DB

IsPrefix(a, b) == Len(a) <= Len(b) /\ SubSeq(b, 1, Len(a)) = a

(* the rows a step appended to the ledger *)
Appended == SubSeq(stock_movements', Len(stock_movements) + 1, Len(stock_movements'))

RECURSIVE SumSeq(_)
SumSeq(q) == IF Len(q) = 0 THEN 0 ELSE q[1] + SumSeq(Tail(q))

(* C1: after any sequence of successful createSale, cancel and adjustStock
   calls on a catalogue whose stocks start non-negative, every product's
   stock is >= 0. *)
C1_StockNeverNegative ==
  \A i \in DOMAIN products : products[i].stock >= 0

(* C2 as stated: a createSale call holding an item whose quantity exceeds the
   current stock of its product fails with the insufficient-stock error and
   leaves products, sales, sale items and ledger as they were. *)
HasOverStockItem(data) ==
  /\ data.items # Absent
  /\ \E k \in DOMAIN Val(data.items) :
       /\ HasRow(products, Val(data.items)[k].product_id)
       /\ Val(data.items)[k].quantity
            > RowOf(products, Val(data.items)[k].product_id).stock

C2_OverStockAlwaysInsufficient ==
  [][(last'.op = "createSale" /\ HasOverStockItem(last'.input))
       => (last'.err = ErrStock /\ UnchangedDB)]_vars

(* the stock line k of a request sees: the stock before the call less the
   quantities of the earlier lines for the same product *)
StockSeenBy(items, k) ==
  RowOf(products, items[k].product_id).stock
    - SumSeq([j \in 1..(k - 1) |->
                IF items[j].product_id = items[k].product_id
                THEN items[j].quantity ELSE 0])

LineFails(items, k) ==
  \/ ~HasRow(products, items[k].product_id)
  \/ StockSeenBy(items, k) < items[k].quantity

FirstFailingLine(items, k) ==
  /\ LineFails(items, k)
  /\ \A j \in 1..(k - 1) : ~LineFails(items, j)

(* C2, amended: a createSale call that passes the input checks and whose
   first failing line fails the stock check (its product exists and the stock
   read at that point, already reduced by the earlier lines of the request, is
   below its quantity) fails with the insufficient-stock error naming those
   two quantities and leaves every table as it was. *)
C2_InsufficientStockRollsBack ==
  [][(/\ last'.op = "createSale"
      /\ last'.input.items # Absent
      /\ last'.input.total > 0
      /\ last'.input.cashier_id \in Users)
       => \A k \in DOMAIN Val(last'.input.items) :
            (/\ FirstFailingLine(Val(last'.input.items), k)
             /\ HasRow(products, Val(last'.input.items)[k].product_id))
              => /\ last'.err = ErrStock
                 /\ last'.at = k
                 /\ last'.available = StockSeenBy(Val(last'.input.items), k)
                 /\ last'.requested = Val(last'.input.items)[k].quantity
                 /\ UnchangedDB]_vars

(* a request failed the stock check on its second line, after the first line
   had been processed *)
C2_Witness ==
  /\ last.op = "createSale"
  /\ last.err = ErrStock
  /\ last.at = 2
  /\ last.requested > last.available

(* C3: a successful createSale followed, with no mutation in between, by a
   successful cancel of that sale leaves every product's stock at its value
   before the createSale, and the cancel appends exactly one 'adjustment'
   movement for each 'sale' movement of that sale. *)
SaleMovements(id) ==
  SelectSeq(stock_movements,
            LAMBDA m : m.movement_type = "sale" /\ m.reference_id = id)

C3_CancelUndoesSale ==
  [][(/\ last'.op = "cancel"
      /\ last'.err = NoErr
      /\ prev.id # 0
      /\ prev.id = last'.id)
       => /\ StockMap(DB') = prev.stocks
          /\ IsPrefix(stock_movements, stock_movements')
          /\ Len(Appended) = Len(SaleMovements(prev.id))
          /\ \A i \in DOMAIN Appended :
               /\ Appended[i].movement_type = "adjustment"
               /\ Appended[i].reference_id = prev.id
               /\ Appended[i].product_id = SaleMovements(prev.id)[i].product_id
               /\ Appended[i].quantity = SaleMovements(prev.id)[i].quantity]_vars

(* the only sale was cancelled right after it was made: the ledger holds its
   'sale' row and the compensating row, nothing else, and the product is back
   at the stock it had before the sale *)
C3_Witness ==
  /\ last.op = "cancel"
  /\ last.err = NoErr
  /\ Len(sales) = 1
  /\ Len(stock_movements) = 2
  /\ stock_movements[1].movement_type = "sale"
  /\ stock_movements[1].quantity > 0
  /\ stock_movements[2].movement_type = "adjustment"
  /\ stock_movements[2].reference_id = sales[1].id

(* C4: for each calendar date, the daily numbers of the sales created on that
   date, cancelled ones included, are pairwise distinct and are exactly
   1..n for the n sales of that date. *)
C4_DailyNumbersContiguous ==
  \A day \in 0..MaxDay :
    LET onDay == {i \in DOMAIN sales : sales[i].created_at = day} IN
    /\ \A i, j \in onDay :
         sales[i].daily_number = sales[j].daily_number => i = j
    /\ {sales[i].daily_number : i \in onDay} = 1..Cardinality(onDay)

(* C5: a createSale that fails on one of its lines, that is after the sale
   header was inserted, leaves no header, item, stock change or ledger row:
   every table equals what it was before the call. *)
C5_FailedSaleLeavesNothing ==
  [][(/\ last'.op = "createSale"
      /\ last'.err \in {ErrItemNotFound, ErrStock})
       => UnchangedDB]_vars

(* a request failed with an unknown product on its second line, after its
   first line had been sold *)
C5_Witness ==
  /\ last.op = "createSale"
  /\ last.err = ErrItemNotFound
  /\ last.at = 2

(* C6: cancel of a sale id that does not exist, or whose sale is already
   inactive, fails and changes no product, no ledger row and no sale. *)
C6_CancelNeedsActiveSale ==
  [][(/\ last'.op = "cancel"
      /\ \A i \in DOMAIN sales :
           sales[i].id = last'.id => sales[i].is_active = 0)
       => (last'.err = ErrSaleNotFound /\ UnchangedDB)]_vars

(* a cancel was refused for a sale that had been cancelled before *)
C6_Witness ==
  /\ last.op = "cancel"
  /\ last.err = ErrSaleNotFound
  /\ \E i \in DOMAIN sales : sales[i].id = last.id /\ sales[i].is_active = 0

(* C7: the ledger is append-only: every step of createSale, cancel,
   adjustStock and of product create, update and delete keeps every existing
   ledger row, field by field, in its place. *)
C7_LedgerAppendOnly ==
  [][IsPrefix(stock_movements, stock_movements')]_vars

(* a cancel has added its compensating row behind the row of the sale *)
C7_Witness ==
  /\ last.op = "cancel"
  /\ last.err = NoErr
  /\ Len(stock_movements) >= 2
  /\ stock_movements[1].movement_type = "sale"

(* C8: every change of a product's stock is recorded by a movement, so the
   stock of every product that has movements equals the new_stock of the
   movement appended last for it. *)
MovementsOf(id) == SelectSeq(stock_movements, LAMBDA m : m.product_id = id)

C8_StockMatchesLedger ==
  \A i \in DOMAIN products :
    LET ms == MovementsOf(products[i].id) IN
    Len(ms) > 0 => products[i].stock = ms[Len(ms)].new_stock

(* C9: stock >= 0 holds for every product in every state, and a product
   create or update given a negative stock is rejected. *)
C9_NoNegativeStockWritten ==
  /\ \A i \in DOMAIN products : products[i].stock >= 0
  /\ (/\ last.op \in {"createProduct", "updateProduct"}
      /\ last.input.stock # Absent
      /\ Val(last.input.stock) < 0)
       => last.err # NoErr

(* C10: createSale with an absent or empty item list, or with total <= 0,
   fails with a validation error and writes nothing: no header (so no daily
   number is used up), no item, no ledger row, no stock change. *)
C10_InvalidSaleRejected ==
  [][(/\ last'.op = "createSale"
      /\ \/ last'.input.items = Absent
         \/ Len(Val(last'.input.items)) = 0
         \/ last'.input.total <= 0)
       => (last'.err \in {ErrNoItems, ErrTotal} /\ UnchangedDB)]_vars

(* a request with a sellable line and a total of zero was refused *)
C10_Witness ==
  /\ last.op = "createSale"
  /\ last.err = ErrTotal
  /\ last.input.total <= 0
  /\ \E i \in DOMAIN products :
       /\ products[i].id = Val(last.input.items)[1].product_id
       /\ products[i].stock >= Val(last.input.items)[1].quantity

(* C11: a successful createSale stores the header's subtotal, tax, discount
   and total and every item's product_name, quantity, unit_price and
   total_price exactly as submitted, tax and discount being 0 when absent;
   nothing is recomputed and the item totals need not add up to the header. *)
C11_StoredAsSubmitted ==
  [][(last'.op = "createSale" /\ last'.err = NoErr)
       => LET data == last'.input
              items == Val(data.items)
              sale == sales'[Len(sales')]
          IN /\ sales' = Append(sales, sale)
             /\ sale.id = last'.id
             /\ sale.total = data.total
             /\ sale.subtotal = data.subtotal
             /\ sale.tax = (IF data.tax = Absent THEN 0 ELSE Val(data.tax))
             /\ sale.discount
                  = (IF data.discount = Absent THEN 0 ELSE Val(data.discount))
             /\ Len(sale_items') = Len(sale_items) + Len(items)
             /\ \A k \in DOMAIN items :
                  LET row == sale_items'[Len(sale_items) + k] IN
                  /\ row.sale_id = sale.id
                  /\ row.product_id = items[k].product_id
                  /\ row.product_name = items[k].product_name
                  /\ row.quantity = items[k].quantity
                  /\ row.unit_price = items[k].unit_price
                  /\ row.total_price = items[k].total_price]_vars

(* a ticket with tax and discount whose lines do not add up to its total, and
   whose line totals are not quantity times unit price, has been stored *)
C11_Witness ==
  /\ last.op = "createSale"
  /\ last.err = NoErr
  /\ last.input.tax # Absent
  /\ sales[Len(sales)].tax = 1
  /\ sales[Len(sales)].discount = 2
  /\ sales[Len(sales)].total # sales[Len(sales)].subtotal + 1 - 2
  /\ SumSeq([k \in DOMAIN Val(last.input.items) |->
               Val(last.input.items)[k].total_price])
       # sales[Len(sales)].total - 1 + 2
  /\ sale_items[Len(sale_items)].total_price
       # sale_items[Len(sale_items)].quantity * sale_items[Len(sale_items)].unit_price

(* C12: for every line of a successful createSale, in input order, the
   product's stock becomes its previous value minus the line's quantity and
   exactly one 'sale' movement is appended with that quantity, the stock read
   before the decrement, the stock after it, the new sale's id as reference
   and the cashier as author. *)
QuantitySold(items, id) ==
  SumSeq([j \in DOMAIN items |->
            IF items[j].product_id = id THEN items[j].quantity ELSE 0])

C12_SaleMovesStock ==
  [][(last'.op = "createSale" /\ last'.err = NoErr)
       => LET data == last'.input
              items == Val(data.items)
          IN /\ IsPrefix(stock_movements, stock_movements')
             /\ Len(Appended) = Len(items)
             /\ \A k \in DOMAIN items :
                  /\ Appended[k].product_id = items[k].product_id
                  /\ Appended[k].movement_type = "sale"
                  /\ Appended[k].quantity = items[k].quantity
                  /\ Appended[k].previous_stock = StockSeenBy(items, k)
                  /\ Appended[k].new_stock
                       = StockSeenBy(items, k) - items[k].quantity
                  /\ Appended[k].reference_id = last'.id
                  /\ Appended[k].created_by = data.cashier_id
             /\ Len(products') = Len(products)
             /\ \A i \in DOMAIN products :
                  products'[i] =
                    [products[i] EXCEPT
                       !.stock = @ - QuantitySold(items, products[i].id)]]_vars

(* two lines for the same product were sold: the second movement starts from
   the stock the first one left *)
C12_Witness ==
  /\ last.op = "createSale"
  /\ last.err = NoErr
  /\ Len(Val(last.input.items)) = 2
  /\ Val(last.input.items)[1].product_id = Val(last.input.items)[2].product_id
  /\ Val(last.input.items)[1].quantity > 0
  /\ Val(last.input.items)[2].quantity > 0
  /\ Len(stock_movements) >= 2
  /\ stock_movements[Len(stock_movements)].previous_stock
       = stock_movements[Len(stock_movements) - 1].new_stock
  /\ stock_movements[Len(stock_movements)].new_stock
       = stock_movements[Len(stock_movements) - 1].previous_stock - 2

(* C13: a successful cancel of an active sale, for each item of the sale,
   raises the item's product stock by the item's quantity and appends one
   'adjustment' movement with the stock before and after the increment, the
   sale's id as reference, the user as author and notes naming the sale's
   daily number; finally the sale is marked inactive. *)
ItemsOf(id) == SelectSeq(sale_items, LAMBDA it : it.sale_id = id)

StockBeforeReturn(items, k) ==
  RowOf(products, items[k].product_id).stock
    + SumSeq([j \in 1..(k - 1) |->
                IF items[j].product_id = items[k].product_id
                THEN items[j].quantity ELSE 0])

C13_CancelReturnsStock ==
  [][(last'.op = "cancel" /\ last'.err = NoErr)
       => LET id == last'.id
              userId == last'.input[2]
              items == ItemsOf(id)
          IN /\ IsPrefix(stock_movements, stock_movements')
             /\ Len(Appended) = Len(items)
             /\ \A k \in DOMAIN items :
                  /\ Appended[k].product_id = items[k].product_id
                  /\ Appended[k].movement_type = "adjustment"
                  /\ Appended[k].quantity = items[k].quantity
                  /\ Appended[k].previous_stock = StockBeforeReturn(items, k)
                  /\ Appended[k].new_stock
                       = StockBeforeReturn(items, k) + items[k].quantity
                  /\ Appended[k].reference_id = id
                  /\ Appended[k].created_by = userId
                  /\ Appended[k].notes.text = "Cancelacion de venta #"
                  /\ Appended[k].notes.n = RowOf(sales, id).daily_number
             /\ Len(products') = Len(products)
             /\ \A i \in DOMAIN products :
                  products'[i] =
                    [products[i] EXCEPT
                       !.stock = @ + QuantitySold(items, products[i].id)]
             /\ Len(sales') = Len(sales)
             /\ \A i \in DOMAIN sales :
                  IF sales[i].id = id
                  THEN /\ sales[i].is_active = 1
                       /\ sales'[i] = [sales[i] EXCEPT !.is_active = 0]
                  ELSE sales'[i] = sales[i]
             /\ sale_items' = sale_items]_vars

(* a sale of two lines has been cancelled: the ledger ends with its two
   compensating rows and the sale is inactive *)
C13_Witness ==
  /\ last.op = "cancel"
  /\ last.err = NoErr
  /\ Len(ItemsOf(last.id)) = 2
  /\ Len(stock_movements) >= 4
  /\ stock_movements[Len(stock_movements)].movement_type = "adjustment"
  /\ stock_movements[Len(stock_movements) - 1].movement_type = "adjustment"
  /\ stock_movements[Len(stock_movements)].reference_id = last.id
  /\ RowOf(sales, last.id).is_active = 0

(* C14: adjustStock fails when the product does not exist (not found) or
   when current stock + delta < 0 (stock cannot go negative), and in both
   cases the product's stock and the ledger, like every table, are unchanged. *)
C14_AdjustRejected ==
  [][(last'.op = "adjustStock")
       => LET productId == last'.input[1]
              delta == last'.input[2]
          IN /\ ~HasRow(products, productId)
                  => (last'.err = ErrProductNotFound /\ UnchangedDB)
             /\ (/\ HasRow(products, productId)
                 /\ RowOf(products, productId).stock + delta < 0)
                  => (last'.err = ErrNegativeStock /\ UnchangedDB)]_vars

(* an adjustment that would have taken an empty shelf below zero was refused *)
C14_Witness ==
  /\ last.op = "adjustStock"
  /\ last.err = ErrNegativeStock
  /\ HasRow(products, last.input[1])
  /\ RowOf(products, last.input[1]).stock = 0
  /\ last.input[2] < 0

(* C15: a successful adjustStock sets the product's stock to current + delta
   and appends exactly one 'adjustment' movement with quantity = delta, the
   stock before and after, notes = reason, the user as author and no
   reference; no other product, no sale and no sale item changes. *)
C15_AdjustMovesStock ==
  [][(last'.op = "adjustStock" /\ last'.err = NoErr)
       => LET productId == last'.input[1]
              delta == last'.input[2]
              reason == last'.input[3]
              userId == last'.input[4]
              current == RowOf(products, productId).stock
          IN /\ Len(products') = Len(products)
             /\ \A i \in DOMAIN products :
                  products'[i] =
                    IF products[i].id = productId
                    THEN [products[i] EXCEPT !.stock = current + delta]
                    ELSE products[i]
             /\ IsPrefix(stock_movements, stock_movements')
             /\ Len(Appended) = 1
             /\ Appended[1].product_id = productId
             /\ Appended[1].movement_type = "adjustment"
             /\ Appended[1].quantity = delta
             /\ Appended[1].previous_stock = current
             /\ Appended[1].new_stock = current + delta
             /\ Appended[1].notes.text = reason
             /\ Appended[1].created_by = userId
             /\ Appended[1].reference_id = NoRef
             /\ sales' = sales
             /\ sale_items' = sale_items]_vars

(* a shelf was adjusted while another product held a different stock *)
C15_Witness ==
  /\ last.op = "adjustStock"
  /\ last.err = NoErr
  /\ Len(stock_movements) >= 1
  /\ stock_movements[Len(stock_movements)].movement_type = "adjustment"
  /\ stock_movements[Len(stock_movements)].reference_id = NoRef
  /\ stock_movements[Len(stock_movements)].product_id = last.input[1]
  /\ \E i \in DOMAIN products :
       /\ products[i].id # last.input[1]
       /\ products[i].stock # RowOf(products, last.input[1]).stock

(* C16: no operation removes a sales row; cancel changes nothing of a sale
   header except its active flag, from true to false; a sale that has become
   inactive never becomes active again. *)
C16_SalesNeverRemoved ==
  [][/\ Len(sales') >= Len(sales)
     /\ \A i \in DOMAIN sales :
          \/ sales'[i] = sales[i]
          \/ /\ last'.op = "cancel"
             /\ last'.err = NoErr
             /\ last'.id = sales[i].id
             /\ sales[i].is_active = 1
             /\ sales'[i] = [sales[i] EXCEPT !.is_active = 0]]_vars

(* a sale was cancelled and the catalogue was edited after it: the cancelled
   row is still there, inactive *)
C16_Witness ==
  /\ Len(sales) >= 1
  /\ sales[1].is_active = 0
  /\ last.op = "updateProduct"
  /\ last.err = NoErr

(* C17: sale items are created only together with their sale inside
   createSale and are never changed or removed afterwards: after a cancel, a
   product rename or soft delete, or further sales every item keeps its
   sale_id, product_id, product_name, quantity, unit_price and total_price,
   the product_name being the one submitted in the request, not the name the
   catalogue holds. *)
C17_SaleItemsFrozen ==
  [][/\ IsPrefix(sale_items, sale_items')
     /\ Len(sale_items') > Len(sale_items)
          => /\ last'.op = "createSale"
             /\ last'.err = NoErr
             /\ Len(sales') = Len(sales) + 1
             /\ Len(sale_items') = Len(sale_items) + Len(Val(last'.input.items))
             /\ \A k \in DOMAIN Val(last'.input.items) :
                  LET row == sale_items'[Len(sale_items) + k] IN
                  /\ row.sale_id = sales'[Len(sales')].id
                  /\ row.product_name = Val(last'.input.items)[k].product_name]_vars

(* a product was renamed after it was sold and the sale cancelled: the item
   still carries the submitted name, which was never the catalogue's *)
C17_Witness ==
  /\ last.op = "updateProduct"
  /\ last.err = NoErr
  /\ \E i \in DOMAIN sale_items :
       /\ HasRow(products, sale_items[i].product_id)
       /\ RowOf(products, sale_items[i].product_id).name = "Cuaderno"
       /\ sale_items[i].product_name = "Libro en oferta"
       /\ RowOf(sales, sale_items[i].sale_id).is_active = 0

(* C18: every sale item ever stored has quantity > 0. *)
C18_ItemQuantityPositive ==
  \A i \in DOMAIN sale_items : sale_items[i].quantity > 0

(* every stored sale item points at a product row: no operation removes a
   row of products *)
SaleItemsHaveProducts ==
  \A i \in DOMAIN sale_items : HasRow(products, sale_items[i].product_id)

(* C20 as stated: when cancel meets an item whose product has been soft
   deleted, it does not raise that product's stock and appends no movement
   for it. *)
InactiveProductsOf(items) ==
  {products[i].id : i \in {j \in DOMAIN products :
      /\ products[j].is_active = 0
      /\ \E k \in DOMAIN items : items[k].product_id = products[j].id}}

C20_SoftDeletedSkipped ==
  [][(last'.op = "cancel" /\ last'.err = NoErr)
       => \A id \in InactiveProductsOf(ItemsOf(last'.id)) :
            /\ RowOf(products', id).stock = RowOf(products, id).stock
            /\ \A k \in DOMAIN Appended : Appended[k].product_id # id]_vars

(* C20, amended: when cancel meets an item whose product has been soft
   deleted, it treats it like any other item: the product's stock is raised
   by the item's quantity and one compensating movement is appended for the
   item; the product stays inactive. *)
C20_SoftDeletedRestored ==
  [][(last'.op = "cancel" /\ last'.err = NoErr)
       => LET items == ItemsOf(last'.id) IN
          \A id \in InactiveProductsOf(items) :
            /\ RowOf(products', id).stock
                 = RowOf(products, id).stock + QuantitySold(items, id)
            /\ RowOf(products', id).is_active = 0
            /\ Len(SelectSeq(Appended, LAMBDA m : m.product_id = id))
                 = Len(SelectSeq(items, LAMBDA it : it.product_id = id))
            /\ \A k \in DOMAIN Appended :
                 Appended[k].product_id = id
                   => /\ Appended[k].movement_type = "adjustment"
                      /\ Appended[k].new_stock
                           = Appended[k].previous_stock + Appended[k].quantity]_vars

(* a sale was cancelled after its product had been soft deleted: the ledger
   ends with the compensating row of the inactive product *)
C20_Witness ==
  /\ last.op = "cancel"
  /\ last.err = NoErr
  /\ Len(stock_movements) >= 2
  /\ LET m == stock_movements[Len(stock_movements)] IN
     /\ m.movement_type = "adjustment"
     /\ m.reference_id = last.id
     /\ RowOf(products, m.product_id).is_active = 0
     /\ RowOf(products, m.product_id).stock = m.new_stock
     /\ m.new_stock > m.previous_stock

(* the answers given so far to the cancel requests for one sale, the
   compensating movements the ledger holds for it, and what the products'
   stocks must be when every item of every active sale, and no other, is
   off the shelf *)
AnswersFor(id) == SelectSeq(answers, LAMBDA a : a.id = id)

Won(id) == SelectSeq(AnswersFor(id), LAMBDA a : a.err = NoErr)

Compensations(id) ==
  SelectSeq(stock_movements,
            LAMBDA m : m.movement_type = "adjustment" /\ m.reference_id = id)

ActiveItems ==
  SelectSeq(sale_items, LAMBDA it : RowOf(sales, it.sale_id).is_active = 1)

RestoredOnce ==
  /\ \A i \in DOMAIN sales :
       Len(Compensations(sales[i].id))
         = (IF Len(Won(sales[i].id)) = 1 THEN Len(ItemsOf(sales[i].id)) ELSE 0)
  /\ \A i \in DOMAIN products :
       products[i].stock = MaxStock - QuantitySold(ActiveItems, products[i].id)

(* C21 as stated: of any number of cancel requests for the same sale, handled
   in any order, each as one atomic unit, exactly one succeeds and all the
   others fail on the 'must be active' precondition; each item's stock is
   restored once and the ledger holds one compensating movement per item. *)
C21_ExactlyOneCancelSucceeds ==
  /\ \A i \in DOMAIN sales :
       LET mine == AnswersFor(sales[i].id) IN
       Len(mine) >= 1
         => /\ Len(Won(sales[i].id)) = 1
            /\ \A k \in DOMAIN mine : mine[k].err \in {NoErr, ErrSaleNotFound}
  /\ RestoredOnce

(* C21, amended: of any number of cancel requests for the same sale that
   name an existing user, handled in any order, each as one atomic unit,
   exactly one succeeds and all the others fail on the 'must be active'
   precondition; a request naming an unknown user fails on the ledger's
   foreign key and changes nothing; each item's stock is restored once and
   the ledger holds one compensating movement per item. *)
C21_OneCancelByKnownUser ==
  /\ \A i \in DOMAIN sales :
       LET mine == AnswersFor(sales[i].id)
           known == SelectSeq(mine, LAMBDA a : a.userId \in Users)
       IN /\ Len(Won(sales[i].id)) <= 1
          /\ Len(known) >= 1 => Len(Won(sales[i].id)) = 1
          /\ \A k \in DOMAIN mine :
               mine[k].err = (IF mine[k].userId \in Users
                              THEN (IF \E j \in 1..(k - 1) : mine[j].err = NoErr
                                    THEN ErrSaleNotFound ELSE NoErr)
                              ELSE (IF \E j \in 1..(k - 1) : mine[j].err = NoErr
                                    THEN ErrSaleNotFound ELSE ErrForeignKey))
  /\ RestoredOnce

(* three requests for the same two-line sale have been answered: one
   succeeded, two were refused, and the ledger holds the sale's two
   compensating rows *)
C21_Witness ==
  /\ Len(answers) = 3
  /\ answers[1].id = answers[2].id
  /\ answers[2].id = answers[3].id
  /\ \A k \in 1..3 : answers[k].userId \in Users
  /\ Len(Won(answers[1].id)) = 1
  /\ Len(ItemsOf(answers[1].id)) = 2
  /\ Len(Compensations(answers[1].id)) = 2

(* C22: deleting a product is a soft delete: it sets only the product's
   active flag to false and never removes the row, so in every state every
   sale item's product_id and every stock movement's product_id names an
   existing product row. *)
ProductReferencesValid ==
  /\ SaleItemsHaveProducts
  /\ \A i \in DOMAIN stock_movements :
       HasRow(products, stock_movements[i].product_id)

C22_DeleteIsSoft ==
  /\ []ProductReferencesValid
  /\ [][/\ Len(products') >= Len(products)
        /\ \A i \in DOMAIN products : products'[i].id = products[i].id
        /\ last'.op = "deleteProduct"
             => \A i \in DOMAIN products :
                  products'[i] =
                    IF products[i].id = last'.id
                    THEN [products[i] EXCEPT !.is_active = 0]
                    ELSE products[i]]_vars

(* a product that had been sold was deleted: its row is still there,
   inactive, under the sale item and the movement that name it *)
C22_Witness ==
  /\ last.op = "deleteProduct"
  /\ HasRow(products, last.id)
  /\ RowOf(products, last.id).is_active = 0
  /\ \E i \in DOMAIN sale_items : sale_items[i].product_id = last.id
  /\ \E i \in DOMAIN stock_movements : stock_movements[i].product_id = last.id

(* C23: in every state no two product rows, active or inactive, share a
   non-null barcode; a product create or update whose barcode is that of
   another product, a soft-deleted one included, is reported as an error and
   leaves every product row as it was. *)
BarcodesUnique ==
  \A i, j \in DOMAIN products :
    (i # j /\ products[i].barcode = products[j].barcode)
      => products[i].barcode = NoBarcode

TakenByAnother(barcode, id) ==
  /\ barcode # Absent
  /\ \E i \in DOMAIN products :
       /\ products[i].id # id
       /\ products[i].barcode # NoBarcode
       /\ products[i].barcode = Trim(Val(barcode))

C23_BarcodeUniqueStoreWide ==
  /\ []BarcodesUnique
  /\ [][/\ (last'.op = "createProduct" /\ TakenByAnother(last'.input.barcode, 0))
             => (last'.err \in {ErrBarcodeExists, ErrUnique}
                   /\ products' = products)
        /\ (/\ last'.op = "updateProduct"
            /\ HasRow(products, last'.id)
            /\ TakenByAnother(last'.input.barcode, last'.id))
             => (last'.err \in {ErrBarcodeOther, ErrUnique}
                   /\ products' = products)]_vars

(* a product was refused the barcode of a soft-deleted product, which only
   the store's UNIQUE constraint still guards *)
C23_Witness ==
  /\ last.op = "createProduct"
  /\ last.err = ErrUnique
  /\ \E i \in DOMAIN products :
       /\ products[i].is_active = 0
       /\ products[i].barcode = Trim(Val(last.input.barcode))

(* C24: getStats returns outOfStock = the number of active products with
   stock = 0, lowStock = the number of active products with
   0 < stock <= min_stock and total = the number of all product rows; no
   product is counted both as low and as out of stock. *)
OutOfStockRows ==
  {i \in DOMAIN products : products[i].is_active = 1 /\ products[i].stock = 0}

LowStockRows ==
  {i \in DOMAIN products :
     /\ products[i].is_active = 1
     /\ 0 < products[i].stock
     /\ products[i].stock <= products[i].min_stock}

C24_StatsCountShelves ==
  last.op = "getStats"
    => /\ Val(last.data).outOfStock = Some(Cardinality(OutOfStockRows))
       /\ Val(last.data).lowStock = Some(Cardinality(LowStockRows))
       /\ Val(last.data).total = Len(products)
       /\ OutOfStockRows \cap LowStockRows = {}

(* C25: getMetrics(from, to), over the sales whose creation date lies in the
   optional range, returns totalSales = the sum of total over the active
   sales, totalTickets = the number of active sales and cancelledSales = the
   number of inactive sales, so totalTickets + cancelledSales is the number
   of sales in the range; a successful cancel of a sale in the range moves
   exactly one unit from totalTickets to cancelledSales and takes that sale's
   total off totalSales. *)
SalesBetween(from, to) ==
  {i \in DOMAIN sales :
     /\ (from = Absent \/ sales[i].created_at >= Val(from))
     /\ (to = Absent \/ sales[i].created_at <= Val(to))}

ActiveBetween(from, to) ==
  {i \in SalesBetween(from, to) : sales[i].is_active = 1}

TotalOfActiveBetween(from, to) ==
  SumSeq([i \in DOMAIN sales |->
            IF i \in ActiveBetween(from, to) THEN sales[i].total ELSE 0])

MetricsAsReported ==
  last.op = "getMetrics"
    => LET from == last.input[1]
           to == last.input[2]
           m == Val(last.data)
       IN /\ m.totalSales = TotalOfActiveBetween(from, to)
          /\ m.totalTickets = Cardinality(ActiveBetween(from, to))
          /\ m.cancelledSales
               = Cardinality(SalesBetween(from, to) \ ActiveBetween(from, to))
          /\ m.totalTickets + m.cancelledSales
               = Cardinality(SalesBetween(from, to))

CancelShiftsMetrics ==
  (last'.op = "cancel" /\ last'.err = NoErr)
    => \A from \in DateInputs, to \in DateInputs :
         LET before == getMetrics(DB, from, to)
             after == getMetrics(DB', from, to)
             sale == RowOf(sales, last'.id)
             hit == IF inRange(sale, from, to) THEN 1 ELSE 0
         IN /\ after.totalTickets = before.totalTickets - hit
            /\ after.cancelledSales = before.cancelledSales + hit
            /\ after.totalSales = before.totalSales - hit * sale.total

C25_MetricsFollowSales ==
  []MetricsAsReported /\ [][CancelShiftsMetrics]_vars

(* a report over the second day alone, asked after a sale of the first day
   and a sale of the second were made and the second one was cancelled *)
C25_Witness ==
  /\ last.op = "getMetrics"
  /\ last.input = <<Some(1), Absent>>
  /\ Val(last.data).cancelledSales = 1
  /\ Val(last.data).totalTickets = 0
  /\ Cardinality(SalesBetween(Absent, Absent)) = 2

(* C26: getTopProducts(limit, from, to) counts only the items of active sales
   in the optional date range: each returned entry's quantity is the sum of
   the quantities of that product's items over those sales, items of
   cancelled sales contribute nothing, the entries are in non-increasing
   order of quantity and at most limit entries are returned. *)
CountedItems(from, to) ==
  SelectSeq(sale_items,
    LAMBDA it : \E i \in ActiveBetween(from, to) : sales[i].id = it.sale_id)

C26_TopProductsSumPerProduct ==
  last.op = "getTopProducts"
    => LET limit == last.input[1]
           from == last.input[2]
           to == last.input[3]
           rows == Val(last.data)
       IN /\ \A k \in DOMAIN rows :
               rows[k].quantity
                 = QuantitySold(CountedItems(from, to), rows[k].product_id)
          /\ \A a, b \in DOMAIN rows :
               a < b => rows[a].quantity >= rows[b].quantity
          /\ Len(rows) <= (IF limit = Absent THEN DefaultLimit ELSE Val(limit))

(* C27: every request handler returns a value whatever the input and the
   engine's outcome: {success: true, ...} when the engine operation returned
   and {success: false, error: message} with the thrown error's message when
   it threw; no engine error escapes a handler and no handler reports success
   for an operation that threw. A createSale, cancel or adjustStock that is
   answered with success has written its rows, and one answered with a
   failure has written nothing. *)
ErrorMessages ==
  {ErrNoItems, ErrTotal, ErrItemNotFound, ErrStock, ErrSaleNotFound,
   ErrProductNotFound, ErrNegativeStock, ErrForeignKey}

Written ==
  CASE last'.op = "createSale" -> Len(sales') = Len(sales) + 1
    [] last'.op = "cancel" ->
         /\ RowOf(sales, last'.id).is_active = 1
         /\ RowOf(sales', last'.id).is_active = 0
    [] last'.op = "adjustStock" ->
         Len(stock_movements') = Len(stock_movements) + 1
    [] OTHER -> FALSE

HandlerAnswered ==
  (last = Idle /\ last' # Idle)
    => /\ last'.reply.success \in BOOLEAN
       /\ last'.reply.success
            => last'.err = NoErr /\ last'.reply.error = Absent /\ Written
       /\ ~last'.reply.success
            => /\ last'.err \in ErrorMessages
               /\ last'.reply.error = Some(last'.err)
               /\ UnchangedDB

C27_HandlersAlwaysAnswer == [][HandlerAnswered]_vars

(* a sale refused for lack of stock and answered as a failure that carries
   the message *)
C27_Witness ==
  /\ last.op = "createSale"
  /\ last.reply = [success |-> FALSE, error |-> Some(ErrStock)]

(* C28: over any number of openings of the database (application startups),
   including startups that fail in the middle of a migration, each migration
   version is applied at most once and in ascending version order; a
   migration's schema changes and its schema_version row are committed
   together or not at all; a startup on an up-to-date store applies
   nothing. *)
AllVersions == {Migrations[i] : i \in DOMAIN Migrations}

AppliedOnceAscending ==
  \A i, j \in DOMAIN attempts :
    (i < j /\ attempts[i].err = NoErr /\ attempts[j].err = NoErr)
      => attempts[i].version < attempts[j].version

CommittedTogether == schema = schema_version

UpToDateStaysUntouched ==
  schema_version = AllVersions
    => /\ attempts' = attempts
       /\ schema' = schema
       /\ schema_version' = schema_version

C28_MigrationsOnceInOrder ==
  [](AppliedOnceAscending /\ CommittedTogether)
    /\ [][UpToDateStaysUntouched]_vars

(* the first startup failed inside the second migration, a later one made up
   for it, and the application was quit and started again after that *)
C28_Witness ==
  /\ Len(attempts) = 3
  /\ attempts[1] = [version |-> 1, err |-> NoErr]
  /\ attempts[2].version = 2 /\ attempts[2].err # NoErr
  /\ attempts[3] = [version |-> 2, err |-> NoErr]
  /\ Len(products) > 0
  /\ conn = "migrating"
  /\ migration.next > Len(Migrations)

(* C29: when only createSale, cancel and adjustStock are used, every
   reachable state satisfies for each product: stock = initial stock + the
   sum of the deltas of all successful adjustStock calls on it - the sum of
   the quantities of its sale items that belong to currently active sales.
   Stated on the steps: each step changes stock + (quantity in active sales)
   of a product by the delta of a successful adjustStock on it and by
   nothing otherwise, so the equation holds in the initial state, where
   nothing is sold or adjusted, and is kept by every step. *)
ActiveSoldIn(db, id) ==
  SumSeq([j \in DOMAIN db.sale_items |->
            IF /\ db.sale_items[j].product_id = id
               /\ RowOf(db.sales, db.sale_items[j].sale_id).is_active = 1
            THEN db.sale_items[j].quantity ELSE 0])

AdjustedBy(id) ==
  IF last'.op = "adjustStock" /\ last'.err = NoErr /\ last'.input[1] = id
  THEN last'.input[2] ELSE 0

C29_StockAccountsForSalesAndAdjustments ==
  [][\A i \in DOMAIN products :
       LET id == products[i].id IN
         RowOf(products', id).stock + ActiveSoldIn(DB', id)
           = products[i].stock + ActiveSoldIn(DB, id) + AdjustedBy(id)]_vars

(* a product sold, written down by an adjustment and, in this state, put back
   by the cancellation of the sale *)
C29_Witness ==
  /\ last.op = "cancel" /\ last.err = NoErr
  /\ \E i \in DOMAIN products :
       /\ \E m \in DOMAIN stock_movements :
            /\ stock_movements[m].movement_type = "adjustment"
            /\ stock_movements[m].product_id = products[i].id
       /\ \E j \in DOMAIN sale_items :
            /\ sale_items[j].product_id = products[i].id
            /\ sale_items[j].sale_id = last.id

(* C30: when one createSale request contains several line items for the same
   product, each line's stock check reads the stock already reduced by the
   earlier lines of the request, so the request succeeds only if the sum of
   those lines' quantities does not exceed the product's stock before the
   call; on success the stock is reduced by that sum, with one 'sale'
   movement per line whose previous_stock is the new_stock of the preceding
   line for that product. *)
SameProductTwice(items) ==
  \E j, k \in DOMAIN items :
    j < k /\ items[j].product_id = items[k].product_id

EarlierLines(items, k) ==
  {j \in 1..(k - 1) : items[j].product_id = items[k].product_id}

PrecedingLine(items, k) ==
  CHOOSE j \in EarlierLines(items, k) : \A h \in EarlierLines(items, k) : h <= j

LinesChained(items) ==
  /\ Len(Appended) = Len(items)
  /\ \A k \in DOMAIN items :
       /\ Appended[k].movement_type = "sale"
       /\ Appended[k].product_id = items[k].product_id
       /\ Appended[k].previous_stock
            = (IF EarlierLines(items, k) = {}
               THEN RowOf(products, items[k].product_id).stock
               ELSE Appended[PrecedingLine(items, k)].new_stock)
       /\ Appended[k].new_stock = Appended[k].previous_stock - items[k].quantity

RepeatedLinesShareStock ==
  (/\ last'.op = "createSale"
   /\ last'.input.items # Absent
   /\ SameProductTwice(Val(last'.input.items)))
    => LET items == Val(last'.input.items) IN
       /\ last'.err = NoErr
            => /\ \A k \in DOMAIN items :
                    LET id == items[k].product_id IN
                    /\ QuantitySold(items, id) <= RowOf(products, id).stock
                    /\ RowOf(products', id).stock
                         = RowOf(products, id).stock - QuantitySold(items, id)
               /\ LinesChained(items)
       /\ (\E k \in DOMAIN items :
             /\ HasRow(products, items[k].product_id)
             /\ QuantitySold(items, items[k].product_id)
                  > RowOf(products, items[k].product_id).stock)
            => last'.err # NoErr /\ UnchangedDB

C30_RepeatedLinesShareStock == [][RepeatedLinesShareStock]_vars

(* two lines of one unit each for a product that had two in stock *)
C30_Witness ==
  /\ last.op = "createSale" /\ last.err = NoErr
  /\ LET items == Val(last.input.items) IN
       /\ Len(items) = 2
       /\ items[1].product_id = items[2].product_id
       /\ items[1].quantity = 1 /\ items[2].quantity = 1
       /\ RowOf(products, items[1].product_id).stock = 0
       /\ Len(stock_movements) >= 2
       /\ stock_movements[Len(stock_movements)].previous_stock = 1
       /\ stock_movements[Len(stock_movements) - 1].previous_stock = 2

(* C31: when stock is changed only through createSale, cancel and
   adjustStock, the movements of each product, in append order, form a chain:
   each movement's previous_stock is the new_stock of the product's preceding
   movement, or the product's initial stock for the first one; 'sale'
   movements have new_stock = previous_stock - quantity and 'adjustment'
   movements new_stock = previous_stock + quantity. A product without
   movements keeps its stock, so the stock its first movement starts from is
   the initial one. *)
MovementsIn(ledger, id) == SelectSeq(ledger, LAMBDA m : m.product_id = id)

LedgerChained ==
  \A i \in DOMAIN products :
    LET ms == MovementsIn(stock_movements, products[i].id) IN
    /\ \A k \in DOMAIN ms :
         /\ k > 1 => ms[k].previous_stock = ms[k - 1].new_stock
         /\ ms[k].movement_type \in {"sale", "adjustment"}
         /\ ms[k].movement_type = "sale"
              => ms[k].new_stock = ms[k].previous_stock - ms[k].quantity
         /\ ms[k].movement_type = "adjustment"
              => ms[k].new_stock = ms[k].previous_stock + ms[k].quantity

FirstMovementFromInitialStock ==
  \A i \in DOMAIN products :
    LET id == products[i].id
        after == MovementsIn(stock_movements', id)
    IN MovementsIn(stock_movements, id) = <<>>
         => IF after = <<>>
            THEN RowOf(products', id).stock = products[i].stock
            ELSE after[1].previous_stock = products[i].stock

C31_MovementsFormChain ==
  []LedgerChained /\ [][FirstMovementFromInitialStock]_vars

(* a product with a sale, an adjustment and the cancellation of the sale in
   its chain *)
C31_Witness ==
  \E i \in DOMAIN products :
    LET ms == MovementsIn(stock_movements, products[i].id) IN
    /\ Len(ms) = 3
    /\ ms[1].movement_type = "sale"
    /\ ms[2].movement_type = "adjustment" /\ ms[2].reference_id = NoRef
    /\ ms[3].movement_type = "adjustment" /\ ms[3].reference_id # NoRef

(* C32: the calendar date createSale uses to look up the previous maximum
   daily_number is the date of the created_at stored on the inserted sale,
   at every moment createSale can run, also when the clock crosses midnight
   between the lookup and the insert; hence a sale is never numbered in the
   sequence of a day other than the day its created_at falls on. *)
NumberedInOwnDay(sale) ==
  LET sameDay == {i \in DOMAIN sales : sales[i].created_at = sale.created_at}
  IN sale.daily_number
       = (IF sameDay = {} THEN 1
          ELSE 1 + (CHOOSE n \in {sales[i].daily_number : i \in sameDay} :
                      \A i \in sameDay : sales[i].daily_number <= n))

LookupDateIsStoredDate ==
  (last'.op = "createSale" /\ last'.err = NoErr)
    => LET sale == RowOf(sales', last'.id) IN
       /\ sale.created_at = clock
       /\ NumberedInOwnDay(sale)

C32_LookupDateIsStoredDate == [][LookupDateIsStoredDate]_vars

(* C33: cancelling a sale never frees its daily_number: the previous maximum
   is taken over all sales of the day whatever their active flag, so a sale
   created after a cancellation on the same date gets a number strictly
   greater than every number issued earlier that day, cancelled ones
   included. *)
NumberAboveEarlierOnes ==
  (last'.op = "createSale" /\ last'.err = NoErr)
    => LET sale == RowOf(sales', last'.id) IN
       \A i \in DOMAIN sales :
         sales[i].created_at = sale.created_at
           => sales[i].daily_number < sale.daily_number

C33_CancelKeepsDailyNumber == [][NumberAboveEarlierOnes]_vars

(* the second sale of a day whose first sale had been cancelled *)
C33_Witness ==
  /\ last.op = "createSale" /\ last.err = NoErr
  /\ Len(sales) = 2
  /\ sales[1].is_active = 0
  /\ sales[1].created_at = sales[2].created_at
  /\ sales[1].daily_number = 1
  /\ sales[2].daily_number = 2

(* C34 as stated: the error reported by a failing createSale is determined by
   a fixed order: empty item list first, then non-positive total, then the
   first item in input order that fails, and for that item an unknown product
   id (NotFound) takes precedence over InsufficientStock; items after the
   first failing one are never examined. *)
ItemError(items, k) ==
  IF ~HasRow(products, items[k].product_id) THEN ErrItemNotFound ELSE ErrStock

FirstItemError(items) ==
  IF \E k \in DOMAIN items : LineFails(items, k)
  THEN LET k == CHOOSE k \in DOMAIN items : FirstFailingLine(items, k)
       IN [err |-> ItemError(items, k), at |-> k]
  ELSE [err |-> NoErr, at |-> 0]

ErrorByOrder(data) ==
  IF data.items = Absent THEN [err |-> ErrNoItems, at |-> 0]
  ELSE IF Len(Val(data.items)) = 0 THEN [err |-> ErrNoItems, at |-> 0]
  ELSE IF data.total <= 0 THEN [err |-> ErrTotal, at |-> 0]
  ELSE FirstItemError(Val(data.items))

C34_ErrorOrder ==
  [][(last'.op = "createSale" /\ last'.err # NoErr)
       => /\ last'.err = ErrorByOrder(last'.input).err
          /\ last'.at = ErrorByOrder(last'.input).at]_vars

(* C34, amended: the order is empty item list, then non-positive total, then
   a cashier id that is not a user (the store refuses the header on its
   foreign key), then the first item in input order that fails, an unknown
   product taking precedence over insufficient stock; nothing after the
   first failure is examined, and a request fails exactly when one of these
   applies. *)
ErrorByOrderWithCashier(data) ==
  IF ErrorByOrder(data).err \in {ErrNoItems, ErrTotal} THEN ErrorByOrder(data)
  ELSE IF data.cashier_id \notin Users THEN [err |-> ErrForeignKey, at |-> 0]
  ELSE ErrorByOrder(data)

C34_ErrorOrderWithCashier ==
  [][last'.op = "createSale"
       => /\ last'.err = ErrorByOrderWithCashier(last'.input).err
          /\ last'.at = ErrorByOrderWithCashier(last'.input).at]_vars

(* a request by a known cashier whose first line names an unknown product and
   whose second line asks for more than the stock: refused as not found, at
   the first line *)
C34_Witness ==
  /\ last.op = "createSale"
  /\ last.err = ErrItemNotFound
  /\ last.at = 1
  /\ last.input.cashier_id \in Users
  /\ Len(Val(last.input.items)) = 2
  /\ HasRow(products, Val(last.input.items)[2].product_id)
  /\ Val(last.input.items)[2].quantity
       > RowOf(products, Val(last.input.items)[2].product_id).stock

(* C35: createSale and cancel leave unchanged the stock of every product
   that no item of the sale concerned refers to, the headers and active
   flags of all other sales, and all sale items of other sales. *)
OtherProductsKept(referenced) ==
  /\ Len(products') = Len(products)
  /\ \A i \in DOMAIN products :
       products[i].id \notin referenced => products'[i] = products[i]

SaleFrameKept ==
  last'.op = "createSale"
    => /\ IsPrefix(sales, sales')
       /\ IsPrefix(sale_items, sale_items')
       /\ \A j \in (DOMAIN sale_items') \ (DOMAIN sale_items) :
            sale_items'[j].sale_id = last'.id
       /\ OtherProductsKept(
            IF last'.input.items = Absent THEN {}
            ELSE {Val(last'.input.items)[k].product_id :
                    k \in DOMAIN Val(last'.input.items)})

CancelFrameKept ==
  last'.op = "cancel"
    => /\ Len(sales') = Len(sales)
       /\ \A i \in DOMAIN sales :
            IF sales[i].id = last'.id
            THEN [sales'[i] EXCEPT !.is_active = 1]
                   = [sales[i] EXCEPT !.is_active = 1]
            ELSE sales'[i] = sales[i]
       /\ sale_items' = sale_items
       /\ OtherProductsKept(
            {sale_items[j].product_id :
               j \in {h \in DOMAIN sale_items : sale_items[h].sale_id = last'.id}})

C35_OtherRowsUntouched == [][SaleFrameKept /\ CancelFrameKept]_vars

(* one of two active sales was cancelled; the other sale is about another
   product, whose stock is still what that sale left *)
C35_Witness ==
  /\ last.op = "cancel" /\ last.err = NoErr
  /\ \E i \in DOMAIN sales :
       /\ sales[i].id # last.id
       /\ sales[i].is_active = 1
       /\ \E j, h \in DOMAIN sale_items :
            /\ sale_items[j].sale_id = sales[i].id
            /\ sale_items[h].sale_id = last.id
            /\ sale_items[j].product_id # sale_items[h].product_id
            /\ \E m \in DOMAIN stock_movements :
                 /\ stock_movements[m].reference_id = sales[i].id
                 /\ stock_movements[m].product_id = sale_items[j].product_id
                 /\ stock_movements[m].new_stock
                      = RowOf(products, sale_items[j].product_id).stock

(* C36: createSale does not consult a product's active flag: a line item for
   a soft-deleted product that has sufficient stock is accepted, decrements
   that product's stock and appends a 'sale' movement exactly as for an
   active product. *)
SoftDeletedLines(items) ==
  {k \in DOMAIN items :
     /\ HasRow(products, items[k].product_id)
     /\ RowOf(products, items[k].product_id).is_active = 0}

SoftDeletedSold ==
  (/\ last'.op = "createSale"
   /\ SoftDeletedLines(Val(last'.input.items)) # {}
   /\ \A k \in DOMAIN Val(last'.input.items) :
        ~LineFails(Val(last'.input.items), k))
    => LET items == Val(last'.input.items) IN
       /\ last'.err = NoErr
       /\ Len(Appended) = Len(items)
       /\ \A k \in SoftDeletedLines(items) :
            LET id == items[k].product_id IN
            /\ Appended[k].movement_type = "sale"
            /\ Appended[k].product_id = id
            /\ Appended[k].reference_id = last'.id
            /\ Appended[k].quantity = items[k].quantity
            /\ Appended[k].previous_stock = StockSeenBy(items, k)
            /\ Appended[k].new_stock = StockSeenBy(items, k) - items[k].quantity
            /\ RowOf(products', id).stock
                 = RowOf(products, id).stock - QuantitySold(items, id)
            /\ RowOf(products', id).is_active = 0

C36_SoftDeletedStillSold == [][SoftDeletedSold]_vars

(* a sale of one unit of a soft-deleted product went through *)
C36_Witness ==
  /\ last.op = "createSale" /\ last.err = NoErr
  /\ \E j \in DOMAIN sale_items :
       /\ sale_items[j].sale_id = last.id
       /\ RowOf(products, sale_items[j].product_id).is_active = 0
       /\ RowOf(products, sale_items[j].product_id).stock = MaxStock - 1
  /\ stock_movements[Len(stock_movements)].movement_type = "sale"
  /\ stock_movements[Len(stock_movements)].reference_id = last.id

(* C37: a call made through the renderer-side API reaches the engine
   operation of the same name with the same arguments:
   electronAPI.sales.cancel(id, userId) has SalesService.cancel invoked with
   that id and that userId, and electronAPI.products.adjustStock(productId,
   quantity, reason, userId) has ProductService.adjustStock invoked with
   those four values. *)
C37_ApiArgumentsReachEngine ==
  last.op \in {"electronAPI.sales.cancel", "electronAPI.products.adjustStock"}
    => /\ Len(Val(last.data)) = Len(last.input)
       /\ \A k \in DOMAIN last.input :
            /\ Val(last.data)[k].kind = "value"
            /\ Val(last.data)[k].v = last.input[k]

(* C38: loginUser issues a token only when the username exists, the user's
   active flag is set and the password matches the stored hash; the checks
   are made in that order, so an unknown user yields 'not found', an inactive
   user yields 'inactive' even with the correct password, and no token is
   ever issued for an inactive user. The user is the row loginUser read. *)
LoginAnswered ==
  (last'.op = "loginUser" /\ last'.op # last.op)
    => LET username == last'.input[1]
           password == last'.input[2]
           read == Val(last'.data).read
           response == Val(last'.data).response
           known == \E i \in DOMAIN users : users[i].username = username
       IN /\ (last.op = "idle" /\ ~known)
               => last'.err = ErrUserNotFound /\ response = Absent
          /\ (last.op = "idle" /\ known)
               => /\ last'.err = ErrUserInactive
                  /\ \E i \in DOMAIN users :
                       users[i].username = username /\ users[i].is_active = 0
          /\ read # Absent /\ Val(read).is_active = 0
               => last'.err = ErrUserInactive /\ response = Absent
          /\ response # Absent
               <=> /\ read # Absent
                   /\ Val(read).username = username
                   /\ Val(read).is_active = 1
                   /\ Val(read).password_hash = bcryptHash(password)
          /\ response # Absent
               => /\ last'.err = NoErr
                  /\ Val(response).token.payload.id = Val(read).id
          /\ (read # Absent /\ Val(read).is_active = 1 /\ response = Absent)
               => last'.err = ErrPassword

C38_LoginChecksInOrder == [][LoginAnswered]_vars

(* an account switched off is refused as inactive although the password
   typed is the right one *)
C38_Witness ==
  /\ last.op = "loginUser"
  /\ last.err = ErrUserInactive
  /\ LET read == Val(Val(last.data).read) IN
       /\ read.is_active = 0
       /\ read.password_hash = bcryptHash(last.input[2])

====
